---- MODULE Spec2Model ----
(***************************************************************************)
(* Pagination-aware extraction controller of the ExiLead scraper.          *)
(*                                                                         *)
(*   Scraper/Final_Scraper copy.py : extract_job_data, handle_pagination,  *)
(*       handle_button_pagination, handle_url_param_pagination,            *)
(*       handle_infinite_scroll, aggregate_stats, scrape_single_company    *)
(*   Scraper/crawl_ex.py : process_jobs_with_progressive_loading           *)
(*                                                                         *)
(* One control position (pc) walks through the code; a call stores its     *)
(* return position in ret.  Every browser call is an environment choice:   *)
(* it succeeds, finds nothing, or raises.  Text is modelled as sequences:  *)
(* error messages as sequences of words, URLs as sequences of characters.  *)
(***************************************************************************)
EXTENDS Integers, Sequences, FiniteSets, TLC

VARIABLES
    config,          \* the normalised site configuration (read-only)
    faults,          \* kinds of failure the environment may produce
    page,            \* the browser page: url, rendered cards, alive
    pc,              \* control position
    ret,             \* position the running call returns to
    \* ---- extract_job_data
    existing_jobs,   \* its argument
    jobs,            \* its working copy / result
    stats,           \* its statistics
    job_cards,       \* number of card handles it resolved
    i,               \* index of the card in hand (0-based)
    browser_closed,  \* its local flag
    job_data,        \* the record being built for card i
    all_jobs,        \* caller's list (receives jobs on return)
    page_stats,      \* caller's copy of the returned statistics
    xlog,            \* history of the running call (not program state)
    \* ---- scrape_single_company
    current_page,    \* pages counted so far
    overall_stats,   \* the session's aggregated statistics
    errors,          \* the session's error list
    pagination_success, \* what the last advance returned
    result,          \* the summary the session returns
    slog,            \* history of the session (not program state)
    \* ---- handle_infinite_scroll
    initial_count,
    consecutive_no_load,
    total_scrolls,
    scroll_result,   \* what handle_infinite_scroll returned
    scroll_raised,   \* did it return through its except branch (not program state)
    growK,           \* the simulated page: cards arrive on the first growK scrolls
    \* ---- the pagination handlers' last call (not program state)
    blog,            \* handle_button_pagination
    ulog,            \* handle_url_param_pagination
    \* ---- crawl_ex.py: process_jobs_with_progressive_loading
    site,            \* the simulated listing: its size and how its cards behave
    card_handles,    \* number of handles in the job_cards list
    available_jobs,
    processed_count,
    total_processed,
    jobs_to_process,
    batch_processed,
    bi,              \* the index i of the for loop
    self_job_data,   \* self.job_data
    plog,            \* history of the run (not program state)
    \* ---- crawl_ex.py: scrape_jobs, and its callers in Final_Scraper copy.py
    page_num,
    total_jobs,
    sj_result,       \* what scrape_jobs returned
    cleaned_jobs,    \* what handle_special_case_scraping returned
    special_result,  \* what scrape_special_case_company returned
    future,          \* future.result(timeout=300) in scrape_special_case_company
    \* ---- main, normalize_company_config, save_multi_company_results
    companies_config, \* the loaded list of company configurations
    ci,              \* number of companies taken from the list
    all_results,     \* main's list of session results
    output,          \* the saved file
    \* ---- parse_metadata, called on its own
    metadata_text,   \* the argument, a sequence of characters
    parsed,          \* the tuple returned
    \* ---- crawl_ex.py: extract_job_details, called on its own
    detail_selectors, \* config["detail_selectors"]: fields and their selector lists
    detail_container, \* what the detail page shows in its container
    job_details,     \* the dictionary being filled, then returned
    field_i,         \* number of fields of detail_selectors dealt with
    dlog             \* history of the call (not program state)

extractVars == <<existing_jobs, jobs, stats, job_cards, i, browser_closed,
                 job_data, all_jobs, page_stats, xlog>>

envVars == <<config, faults, page>>

sessionVars == <<current_page, overall_stats, errors, pagination_success,
                 result, slog>>

scrollVars == <<initial_count, consecutive_no_load, total_scrolls,
                scroll_result, scroll_raised, growK>>

handlerLogs == <<blog, ulog>>

progVars == <<site, card_handles, available_jobs, processed_count, total_processed,
              jobs_to_process, batch_processed, bi, self_job_data, plog,
              page_num, total_jobs, sj_result, cleaned_jobs, special_result, future>>

mainVars == <<companies_config, ci, all_results, output>>

metaVars == <<metadata_text, parsed>>

detailVars == <<detail_selectors, detail_container, job_details, field_i, dlog>>

vars == <<mainVars, metaVars, detailVars, config, faults, page, pc, ret, existing_jobs, jobs, stats,
          job_cards, i, browser_closed, job_data, all_jobs, page_stats, xlog,
          current_page, overall_stats, errors, pagination_success, result, slog,
          initial_count, consecutive_no_load, total_scrolls, scroll_result,
          scroll_raised, growK, blog, ulog,
          site, card_handles, available_jobs, processed_count, total_processed,
          jobs_to_process, batch_processed, bi, self_job_data, plog,
          page_num, total_jobs, sj_result, cleaned_jobs, special_result, future>>

-----------------------------------------------------------------------------
(* Bounds of the model *)

MaxCards == 2

MaxPageNum == 2

-----------------------------------------------------------------------------
(* Sequences helpers *)

Contains(s, pat) ==
    \E k \in 0..(Len(s) - Len(pat)) : SubSeq(s, k + 1, k + Len(pat)) = pat

Min(a, b) == IF a < b THEN a ELSE b

-----------------------------------------------------------------------------
(* Error messages, as sequences of words *)

TargetClosedMsg ==
    <<"Target", "page,", "context", "or", "browser", "has", "been", "closed">>

BrowserClosedMsg == <<"Browser", "has", "been", "closed">>

TimeoutMsg == <<"Timeout", "30000ms", "exceeded">>

ClosureMessages == {TargetClosedMsg, BrowserClosedMsg}

LowerWord(w) ==
    CASE w = "Target"  -> "target"
      [] w = "Browser" -> "browser"
      [] w = "Timeout" -> "timeout"
      [] OTHER         -> w

Lower(msg) == [k \in 1..Len(msg) |-> LowerWord(msg[k])]

IsBrowserClosureCaseSensitive(msg) ==
    \/ Contains(msg, <<"target", "page,", "context", "or", "browser", "has", "been", "closed">>)
    \/ Contains(msg, <<"browser", "has", "been", "closed">>)

\* error_msg = str(e).lower(); the two substring tests of every field handler
IsBrowserClosure(msg) ==
    LET error_msg == Lower(msg)
    IN  \/ Contains(error_msg, <<"target", "page,", "context", "or", "browser", "has", "been", "closed">>)
        \/ Contains(error_msg, <<"browser", "has", "been", "closed">>)

-----------------------------------------------------------------------------
(* Browser calls *)

OK == [kind |-> "ok", msg |-> <<>>]

ABSENT == [kind |-> "absent", msg |-> <<>>]

Raise(m) == [kind |-> "raise", msg |-> m]

\* outcomes of a call that reads the page or one of its elements
BrowserCall ==
    IF ~page.alive
    THEN {Raise(m) : m \in ClosureMessages}
    ELSE {OK}
         \cup (IF "absent" \in faults THEN {ABSENT} ELSE {})
         \cup (IF "error" \in faults THEN {Raise(TimeoutMsg)} ELSE {})
         \cup (IF "closed" \in faults THEN {Raise(m) : m \in ClosureMessages} ELSE {})

IsClosure(o) == o.kind = "raise" /\ o.msg \in ClosureMessages

\* the page after a call with outcome o: a closure error means the page is gone
AfterCall(o) == IF IsClosure(o) THEN [page EXCEPT !.alive = FALSE] ELSE page

\* outcomes of the property read `_ = page.url`: a dead page may or may not raise
UrlProbe == IF page.alive THEN {OK} ELSE {OK, Raise(TargetClosedMsg)}

-----------------------------------------------------------------------------
(* extract_job_data *)

ZeroStats ==
    [total_job_cards_found |-> 0, skipped_duplicates |-> 0,
     skipped_extraction_errors |-> 0, successful_extractions |-> 0,
     gemini_processing_errors |-> 0, crawl4ai_errors |-> 0,
     browser_closed_early |-> FALSE]

NoJobData ==
    [title |-> "unset", location |-> "unset", posted_date |-> "unset",
     description |-> "unset", apply_link |-> "unset"]

\* checked, dups, fetched, normalized: the cards of this call whose apply link
\* was looked up, was reported present, was crawled, was handed to Gemini;
\* calls: the direct calls of check_apply_link_exists;
\* reads: how each field read of the current card went;
\* metadata: how the read of its metadata element went
NoReads ==
    [title |-> "unread", location |-> "unread", posted_date |-> "unread",
     description |-> "unread", apply_link |-> "unread"]

NoLog ==
    [closedAt |-> -1, closedWhere |-> "none", emitted |-> <<>>, pass |-> 0,
     checked |-> {}, dups |-> {}, fetched |-> {}, normalized |-> {},
     calls |-> <<>>, reads |-> NoReads, cookie_checks |-> <<>>,
     cookie_failed |-> FALSE, metadata |-> "unread", excepted |-> {}]

\* how a read went, as the except clauses of the field blocks tell it
ReadKind(o) ==
    IF o.kind = "raise"
    THEN (IF IsBrowserClosure(o.msg) THEN "closed" ELSE "error")
    ELSE o.kind

FieldValueBlankOnError(o) ==
    IF o.kind = "ok" THEN "text" ELSE IF o.kind = "absent" THEN "N/A" ELSE ""

\* the text of a located element, or the sentinel
FieldValue(o) == IF o.kind = "ok" THEN "text" ELSE "N/A"

ExtractEntry ==
    /\ pc = "x_entry"
    /\ UNCHANGED <<progVars, mainVars, metaVars, detailVars>>
    /\ existing_jobs' = all_jobs
    /\ jobs' = all_jobs
    /\ browser_closed' = FALSE
    /\ i' = 0
    /\ job_data' = NoJobData
    /\ xlog' = [NoLog EXCEPT !.pass = xlog.pass + 1]
    /\ \E o \in BrowserCall :
          /\ page' = AfterCall(o)
          /\ IF o.kind = "raise"
             THEN /\ stats' = ZeroStats
                  /\ job_cards' = 0
                  /\ pc' = "x_return"
             ELSE /\ stats' = [ZeroStats EXCEPT !.total_job_cards_found = page.cards]
                  /\ job_cards' = page.cards
                  /\ pc' = "x_loop"
    /\ UNCHANGED <<sessionVars, scrollVars, handlerLogs>>
    /\ UNCHANGED <<config, faults, ret, all_jobs, page_stats>>

DynamicCookiesDueAtZero(idx) == idx % 10 = 0

\* if i > 0 and i % 10 == 0
DynamicCookiesDue(idx) == idx > 0 /\ idx % 10 = 0

\* handle_dynamic_cookies(page, cookie_handler): what its browser calls met;
\* it catches every exception and its result is not used
DynamicCookieOutcomes ==
    BrowserCall \cup (IF "cookie" \in faults /\ page.alive
                      THEN {Raise(TimeoutMsg)} ELSE {})

ReachedMaxJobsExclusive(collected) ==
    collected > config.max_jobs /\ config.pagination_type # "infinite_scroll"

\* if len(jobs) >= config['max_jobs'] and
\*    config.get('pagination_type') != 'infinite_scroll'
ReachedMaxJobs(collected) ==
    collected >= config.max_jobs /\ config.pagination_type # "infinite_scroll"

\* the head of the for loop: stop after a closure, re-check the cookie
\* banners every tenth card, stop on max_jobs
CardLoopHead ==
    /\ pc = "x_loop"
    /\ UNCHANGED <<progVars, mainVars, metaVars, detailVars>>
    /\ IF browser_closed \/ i >= job_cards
       THEN /\ pc' = "x_return"
            /\ xlog' = [xlog EXCEPT !.reads = NoReads, !.metadata = "unread"]
            /\ UNCHANGED page
       ELSE /\ IF DynamicCookiesDue(i)
               THEN \E o \in DynamicCookieOutcomes :
                       /\ page' = AfterCall(o)
                       /\ xlog' = [xlog EXCEPT
                             !.reads = NoReads,
                             !.metadata = "unread",
                             !.cookie_checks = Append(@, i),
                             !.cookie_failed = @ \/ o.kind = "raise"]
               ELSE /\ xlog' = [xlog EXCEPT !.reads = NoReads, !.metadata = "unread"]
                    /\ UNCHANGED page
            /\ IF ReachedMaxJobs(Len(jobs))
               THEN pc' = "x_return"
               ELSE pc' = "x_live"
    /\ job_data' = NoJobData
    /\ UNCHANGED <<sessionVars, scrollVars, handlerLogs>>
    /\ UNCHANGED <<config, faults, ret, existing_jobs, jobs, stats, job_cards, i,
                   browser_closed, all_jobs, page_stats>>

PageAliveCheck ==
    /\ pc = "x_live"
    /\ UNCHANGED <<progVars, mainVars, metaVars, detailVars>>
    /\ \E o \in UrlProbe :
          IF o.kind = "raise"
          THEN /\ browser_closed' = TRUE
               /\ stats' = [stats EXCEPT !.browser_closed_early = TRUE]
               /\ xlog' = [xlog EXCEPT !.closedAt = i, !.closedWhere = "live"]
               /\ pc' = "x_return"
          ELSE /\ pc' = "x_title"
               /\ UNCHANGED <<browser_closed, stats, xlog>>
    /\ UNCHANGED <<sessionVars, scrollVars, handlerLogs>>
    /\ UNCHANGED <<envVars, ret, existing_jobs, jobs, job_cards, i, job_data,
                   all_jobs, page_stats>>

\* one guarded element read: selector empty -> sentinel; closure error -> break;
\* any other outcome -> the text or the sentinel
FieldReadDropsOnError(here, next, field, hasSelector) ==
    /\ pc = here
    /\ UNCHANGED <<progVars, mainVars, metaVars, detailVars>>
    /\ IF hasSelector
       THEN \E o \in BrowserCall :
               /\ page' = AfterCall(o)
               /\ xlog' = IF IsClosure(o)
                          THEN [xlog EXCEPT !.closedAt = i, !.closedWhere = field,
                                            !.reads[field] = ReadKind(o)]
                          ELSE [xlog EXCEPT !.reads[field] = ReadKind(o)]
               /\ IF o.kind = "raise" /\ IsBrowserClosure(o.msg)
                  THEN /\ browser_closed' = TRUE
                       /\ pc' = "x_return"
                       /\ UNCHANGED <<job_data, i>>
                  ELSE IF o.kind = "raise"
                  THEN /\ pc' = "x_loop"
                       /\ i' = i + 1
                       /\ UNCHANGED <<job_data, browser_closed>>
                  ELSE /\ job_data' = [job_data EXCEPT ![field] = FieldValue(o)]
                       /\ pc' = next
                       /\ UNCHANGED <<browser_closed, i>>
       ELSE /\ job_data' = [job_data EXCEPT ![field] = "N/A"]
            /\ xlog' = [xlog EXCEPT !.reads[field] = "no_selector"]
            /\ pc' = next
            /\ UNCHANGED <<page, browser_closed, i>>
    /\ UNCHANGED <<sessionVars, scrollVars, handlerLogs>>
    /\ UNCHANGED <<config, faults, ret, existing_jobs, jobs, stats, job_cards,
                   all_jobs, page_stats>>

FieldRead(here, next, field, hasSelector) ==
    /\ pc = here
    /\ UNCHANGED <<progVars, mainVars, metaVars, detailVars>>
    /\ IF hasSelector
       THEN \E o \in BrowserCall :
               /\ page' = AfterCall(o)
               /\ xlog' = IF IsClosure(o)
                          THEN [xlog EXCEPT !.closedAt = i, !.closedWhere = field,
                                            !.reads[field] = ReadKind(o)]
                          ELSE [xlog EXCEPT !.reads[field] = ReadKind(o)]
               /\ IF o.kind = "raise" /\ IsBrowserClosure(o.msg)
                  THEN /\ browser_closed' = TRUE
                       /\ pc' = "x_return"
                       /\ UNCHANGED job_data
                  ELSE /\ job_data' = [job_data EXCEPT ![field] = FieldValue(o)]
                       /\ pc' = next
                       /\ UNCHANGED browser_closed
       ELSE /\ job_data' = [job_data EXCEPT ![field] = "N/A"]
            /\ xlog' = [xlog EXCEPT !.reads[field] = "no_selector"]
            /\ pc' = next
            /\ UNCHANGED <<page, browser_closed>>
    /\ UNCHANGED <<sessionVars, scrollVars, handlerLogs>>
    /\ UNCHANGED <<config, faults, ret, existing_jobs, jobs, stats, job_cards, i,
                   all_jobs, page_stats>>

ExtractTitle == FieldRead("x_title", "x_meta", "title", config.title_selector)

\* the combined metadata element, parsed into location and posted date
ExtractMetadata ==
    /\ pc = "x_meta"
    /\ UNCHANGED <<progVars, mainVars, metaVars, detailVars>>
    /\ IF config.use_metadata_parsing /\ config.metadata_selector
       THEN \E o \in BrowserCall :
               /\ page' = AfterCall(o)
               /\ xlog' = IF IsClosure(o)
                          THEN [xlog EXCEPT !.closedAt = i, !.closedWhere = "metadata",
                                            !.metadata = ReadKind(o)]
                          ELSE [xlog EXCEPT !.metadata = ReadKind(o)]
               /\ IF o.kind = "raise" /\ IsBrowserClosure(o.msg)
                  THEN /\ browser_closed' = TRUE
                       /\ pc' = "x_return"
                       /\ UNCHANGED job_data
                  ELSE /\ job_data' =
                            [job_data EXCEPT
                               !.location = IF o.kind = "ok" THEN "parsed" ELSE "N/A",
                               !.posted_date = IF o.kind = "ok" THEN "parsed" ELSE "N/A"]
                       /\ pc' = "x_location"
                       /\ UNCHANGED browser_closed
       ELSE /\ pc' = "x_location"
            /\ UNCHANGED <<page, browser_closed, xlog, job_data>>
    /\ UNCHANGED <<sessionVars, scrollVars, handlerLogs>>
    /\ UNCHANGED <<config, faults, ret, existing_jobs, jobs, stats, job_cards, i,
                   all_jobs, page_stats>>

ExtractLocation ==
    FieldRead("x_location", "x_posted", "location", config.location_selector)

ExtractPosted ==
    FieldRead("x_posted", "x_description", "posted_date", config.posted_selector)

ExtractDescription ==
    FieldRead("x_description", "x_link", "description", config.description_selector)

\* urljoin(base_url, href) for an href that starts with "/": the absolute
\* link, or the ValueError urlsplit raises on a malformed authority ("//[")
HrefJoin == {"ok"} \cup (IF "badhref" \in faults THEN {"raise"} ELSE {})

\* the except of the card's try: one more skipped_extraction_errors, continue
CardExceptCountsSuccess(st) == [st EXCEPT !.successful_extractions = @ + 1]

CardExcept(st) == [st EXCEPT !.skipped_extraction_errors = @ + 1]

\* href of the link element, or of the card itself when no link selector is
\* set, made absolute; a failure of the join leaves the card's try
ExtractLink ==
    /\ pc = "x_link"
    /\ UNCHANGED <<progVars, mainVars, metaVars, detailVars>>
    /\ \E o \in BrowserCall, join \in HrefJoin :
          /\ page' = AfterCall(o)
          /\ xlog' = IF IsClosure(o)
                     THEN [xlog EXCEPT !.closedAt = i, !.closedWhere = "apply_link",
                                       !.reads.apply_link = ReadKind(o)]
                     ELSE IF o.kind = "ok" /\ join = "raise"
                     THEN [xlog EXCEPT !.reads.apply_link = "bad_href",
                                       !.excepted = @ \cup {i}]
                     ELSE [xlog EXCEPT !.reads.apply_link = ReadKind(o)]
          /\ IF o.kind = "raise" /\ IsBrowserClosure(o.msg)
             THEN /\ browser_closed' = TRUE
                  /\ pc' = "x_return"
                  /\ UNCHANGED <<job_data, stats, i>>
             ELSE IF o.kind = "ok" /\ join = "raise"
             THEN /\ stats' = CardExcept(stats)
                  /\ i' = i + 1
                  /\ pc' = "x_loop"
                  /\ UNCHANGED <<job_data, browser_closed>>
             ELSE /\ job_data' = [job_data EXCEPT
                                    !.apply_link = IF o.kind = "ok" THEN "url" ELSE "N/A"]
                  /\ pc' = "x_dedup"
                  /\ UNCHANGED <<browser_closed, stats, i>>
    /\ UNCHANGED <<sessionVars, scrollVars, handlerLogs>>
    /\ UNCHANGED <<config, faults, ret, existing_jobs, jobs, job_cards,
                   all_jobs, page_stats>>

\* what the store does when asked about a link: get_db_connection gives no
\* connection, the query raises, or COUNT(*) is n
NoConnection == [kind |-> "unavailable", n |-> 0]

QueryRaises == [kind |-> "error", n |-> 0]

Rows(n) == [kind |-> "rows", n |-> n]

\* outcomes of the store lookup; a populated store holds every link of the page
StoreLookup ==
    (IF "populated" \in faults THEN {Rows(1)}
     ELSE {Rows(0)} \cup (IF "dup" \in faults THEN {Rows(1)} ELSE {}))
    \cup (IF "store" \in faults THEN {NoConnection, QueryRaises} ELSE {})

\* `not apply_link`: None (a job without the key) or the empty string
Falsy(apply_link) == apply_link \in {"unset", ""}

\* how far check_apply_link_exists gets into the store
StoreAccess(apply_link, lookup) ==
    IF Falsy(apply_link) \/ apply_link = "N/A" THEN "untouched"
    ELSE IF lookup.kind = "unavailable" THEN "no_connection"
    ELSE "queried"

check_apply_link_exists_fails_closed(apply_link, lookup) ==
    IF Falsy(apply_link) \/ apply_link = "N/A" THEN FALSE
    ELSE lookup.kind # "rows" \/ lookup.n > 0

check_apply_link_exists_never(apply_link, lookup) == FALSE

check_apply_link_exists(apply_link, lookup) ==
    IF Falsy(apply_link) \/ apply_link = "N/A" THEN FALSE
    ELSE IF lookup.kind = "unavailable" THEN FALSE
    ELSE IF lookup.kind = "error" THEN FALSE
    ELSE lookup.n > 0

DedupCheckStillEnriches ==
    /\ pc = "x_dedup"
    /\ UNCHANGED <<progVars, mainVars, metaVars, detailVars>>
    /\ \E lookup \in StoreLookup :
          LET dup == check_apply_link_exists(job_data.apply_link, lookup)
          IN  /\ stats' = [stats EXCEPT
                             !.skipped_duplicates = IF dup THEN @ + 1 ELSE @]
              /\ xlog' = [xlog EXCEPT
                            !.checked = @ \cup {i},
                            !.dups = IF dup THEN @ \cup {i} ELSE @]
    /\ pc' = "x_enrich"
    /\ UNCHANGED <<sessionVars, scrollVars, handlerLogs>>
    /\ UNCHANGED <<envVars, ret, existing_jobs, jobs, job_cards, browser_closed,
                   job_data, all_jobs, page_stats, i>>

DedupCheck ==
    /\ pc = "x_dedup"
    /\ UNCHANGED <<progVars, mainVars, metaVars, detailVars>>
    /\ \E lookup \in StoreLookup :
          IF check_apply_link_exists(job_data.apply_link, lookup)
          THEN /\ stats' = [stats EXCEPT !.skipped_duplicates = @ + 1]
               /\ xlog' = [xlog EXCEPT !.checked = @ \cup {i},
                                       !.dups = @ \cup {i}]
               /\ i' = i + 1
               /\ pc' = "x_loop"
          ELSE /\ xlog' = [xlog EXCEPT !.checked = @ \cup {i}]
               /\ pc' = "x_enrich"
               /\ UNCHANGED <<stats, i>>
    /\ UNCHANGED <<sessionVars, scrollVars, handlerLogs>>
    /\ UNCHANGED <<envVars, ret, existing_jobs, jobs, job_cards, browser_closed,
                   job_data, all_jobs, page_stats>>

CrawlOutcomes == {"ok"} \cup (IF "crawl" \in faults THEN {"error"} ELSE {})

\* the reply of the model: parsed JSON that repeats the fields ("ok"), parsed
\* JSON that follows rule 3 of the prompt and writes null for missing data
\* ("ok_null"), text that does not parse, or an exception of the API
GeminiOutcomes ==
    {"ok"}
    \cup (IF "rewrite" \in faults THEN {"ok_null"} ELSE {})
    \cup (IF "gemini" \in faults THEN {"bad_json", "api_error"} ELSE {})

GeminiParsed(gemini) == gemini \in {"ok", "ok_null"}

\* a field of the record: the reply's value when the reply parsed, else the
\* raw value
CleanedField(value, gemini) ==
    IF gemini = "ok_null" /\ value = "N/A" THEN "null" ELSE value

\* the record appended for card i, and who structured it
CleanedJob(gemini) ==
    [src |-> <<xlog.pass, i>>,
     title |-> CleanedField(job_data.title, gemini),
     location |-> CleanedField(job_data.location, gemini),
     posted_date |-> CleanedField(job_data.posted_date, gemini),
     description |-> CleanedField(job_data.description, gemini),
     apply_link |-> CleanedField(job_data.apply_link, gemini),
     by |-> IF GeminiParsed(gemini) THEN "gemini" ELSE "fallback"]

\* detail crawl, enrichment, then jobs.append(cleaned_job)
EnrichAndAppend ==
    /\ pc = "x_enrich"
    /\ UNCHANGED <<progVars, mainVars, metaVars, detailVars>>
    /\ \E crawl \in CrawlOutcomes, gemini \in GeminiOutcomes :
          LET crawled == job_data.apply_link # "N/A"
              cleaned_job == CleanedJob(gemini)
          IN  /\ jobs' = Append(jobs, cleaned_job)
              /\ xlog' = [xlog EXCEPT
                            !.emitted = Append(@, cleaned_job),
                            !.fetched = IF crawled THEN @ \cup {i} ELSE @,
                            !.normalized = @ \cup {i}]
              /\ stats' = [stats EXCEPT
                     !.crawl4ai_errors =
                         IF crawled /\ crawl = "error" THEN @ + 1 ELSE @,
                     !.gemini_processing_errors =
                         IF ~GeminiParsed(gemini) THEN @ + 1 ELSE @,
                     !.successful_extractions = @ + 1]
    /\ i' = i + 1
    /\ pc' = "x_loop"
    /\ UNCHANGED <<sessionVars, scrollVars, handlerLogs>>
    /\ UNCHANGED <<envVars, ret, existing_jobs, job_cards, browser_closed,
                   job_data, all_jobs, page_stats>>

\* `return jobs, stats`, received by the caller as all_jobs, page_stats
ExtractReturn ==
    /\ pc = "x_return"
    /\ UNCHANGED <<progVars, mainVars, metaVars, detailVars>>
    /\ all_jobs' = jobs
    /\ page_stats' = stats
    /\ pc' = ret
    /\ UNCHANGED <<sessionVars, scrollVars, handlerLogs>>
    /\ UNCHANGED <<envVars, ret, existing_jobs, jobs, stats, job_cards, i,
                   browser_closed, job_data, xlog>>

ExtractNext ==
    \/ ExtractEntry
    \/ CardLoopHead
    \/ PageAliveCheck
    \/ ExtractTitle
    \/ ExtractMetadata
    \/ ExtractLocation
    \/ ExtractPosted
    \/ ExtractDescription
    \/ ExtractLink
    \/ DedupCheck
    \/ EnrichAndAppend
    \/ ExtractReturn

-----------------------------------------------------------------------------
(* Text of URLs: sequences of characters *)

DigitChars == <<"0", "1", "2", "3", "4", "5", "6", "7", "8", "9">>

IsDigit(c) == \E d \in 1..10 : DigitChars[d] = c

RECURSIVE IntToStr(_)
\* str(n) of a natural number
IntToStr(n) ==
    IF n < 10
    THEN <<DigitChars[n + 1]>>
    ELSE IntToStr(n \div 10) \o <<DigitChars[(n % 10) + 1]>>

RECURSIVE DigitsEnd(_, _)
\* first position at or after k that holds no digit
DigitsEnd(url, k) ==
    IF k <= Len(url) /\ IsDigit(url[k]) THEN DigitsEnd(url, k + 1) ELSE k

\* does  pat \d+  match at position k
MatchAt(url, k, pat) ==
    /\ k + Len(pat) <= Len(url)
    /\ SubSeq(url, k, k + Len(pat) - 1) = pat
    /\ IsDigit(url[k + Len(pat)])

RECURSIVE ReSub(_, _, _, _)
\* re.sub(pat + '\d+', repl, url), scanning from position k
ReSub(url, k, pat, repl) ==
    IF k > Len(url)
    THEN <<>>
    ELSE IF MatchAt(url, k, pat)
         THEN repl \o ReSub(url, DigitsEnd(url, k + Len(pat)), pat, repl)
         ELSE <<url[k]>> \o ReSub(url, k + 1, pat, repl)

P_page == <<"p", "a", "g", "e">>

P_p == <<"p">>

P_startrow == <<"s", "t", "a", "r", "t", "r", "o", "w">>

P_jobOffset == <<"j", "o", "b", "O", "f", "f", "s", "e", "t">>

P_pg == <<"p", "g">>

-----------------------------------------------------------------------------
(* handle_url_param_pagination *)

NextValuePlusStep(param, page_number, step) ==
    IF param = P_startrow \/ param = P_jobOffset
    THEN page_number * step + step
    ELSE page_number + 1

\* the value the pagination parameter takes on the next page
NextValue(param, page_number, step) ==
    IF param = P_startrow THEN (page_number - 1) * step + step
    ELSE IF param = P_page THEN page_number + 1
    ELSE IF param = P_p THEN page_number + 1
    ELSE IF param = P_jobOffset THEN (page_number - 1) * step + step
    ELSE page_number + 1

\* update or add the parameter
NewUrl(current_url, param, next_value) ==
    LET assign == param \o <<"=">>
        repl == assign \o IntToStr(next_value)
    IN  IF Contains(current_url, assign)
        THEN ReSub(current_url, 1, assign, repl)
        ELSE LET separator == IF Contains(current_url, <<"?">>) THEN "&" ELSE "?"
             IN  current_url \o <<separator>> \o repl

NoUlog ==
    [called |-> FALSE, page_number |-> 0, current_url |-> <<>>, new_url |-> <<>>,
     next_value |-> 0, raised |-> "none", navigated |-> FALSE, jobs_found |-> -1,
     result |-> "none"]

\* outcomes of a call that either works or raises
PlainCall == {o \in BrowserCall : o.kind # "absent"}

UrlParamPaginationTryBlockTooShort ==
    /\ pc = "u_entry"
    /\ UNCHANGED <<progVars, mainVars, metaVars, detailVars>>
    /\ LET page_number == current_page
           param == config.pagination_param
           step == config.pagination_step
           current_url == page.url
           next_value == NextValue(param, page_number, step)
           new_url == NewUrl(current_url, param, next_value)
           log == [NoUlog EXCEPT !.called = TRUE, !.page_number = page_number,
                                 !.current_url = current_url, !.new_url = new_url,
                                 !.next_value = next_value]
       IN  \E nav \in PlainCall :
              IF nav.kind = "raise"
              THEN /\ page' = AfterCall(nav)
                   /\ pagination_success' = "raised"
                   /\ ulog' = [log EXCEPT !.raised = "goto", !.result = "raised"]
              ELSE \E n \in 0..MaxCards :
                      /\ page' = [page EXCEPT !.url = new_url, !.cards = n]
                      /\ pagination_success' = IF n = 0 THEN "False" ELSE "True"
                      /\ ulog' = [log EXCEPT !.navigated = TRUE, !.jobs_found = n,
                                    !.result = IF n = 0 THEN "False" ELSE "True"]
    /\ pc' = ret
    /\ UNCHANGED <<config, faults, ret, extractVars, scrollVars, blog,
                   current_page, overall_stats, errors, result, slog>>

UrlParamPagination ==
    /\ pc = "u_entry"
    /\ UNCHANGED <<progVars, mainVars, metaVars, detailVars>>
    /\ LET page_number == current_page
           param == config.pagination_param
           step == config.pagination_step
           current_url == page.url
           next_value == NextValue(param, page_number, step)
           new_url == NewUrl(current_url, param, next_value)
           log == [NoUlog EXCEPT !.called = TRUE, !.page_number = page_number,
                                 !.current_url = current_url, !.new_url = new_url,
                                 !.next_value = next_value]
       IN  \E nav \in PlainCall :
              IF nav.kind = "raise"
              THEN \* page.goto raised: the except branch returns False
                   /\ page' = AfterCall(nav)
                   /\ pagination_success' = "False"
                   /\ ulog' = [log EXCEPT !.raised = "goto", !.result = "False"]
              ELSE \E n \in 0..MaxCards,
                      count \in {OK} \cup {o \in BrowserCall : IsClosure(o)} :
                      IF count.kind = "raise"
                      THEN \* the page went away before the cards were counted
                           /\ page' = [page EXCEPT !.url = new_url, !.cards = n,
                                                   !.alive = FALSE]
                           /\ pagination_success' = "False"
                           /\ ulog' = [log EXCEPT !.navigated = TRUE,
                                          !.raised = "count", !.result = "False"]
                      ELSE /\ page' = [page EXCEPT !.url = new_url, !.cards = n]
                           /\ pagination_success' = IF n = 0 THEN "False" ELSE "True"
                           /\ ulog' = [log EXCEPT !.navigated = TRUE, !.jobs_found = n,
                                          !.result = IF n = 0 THEN "False" ELSE "True"]
    /\ pc' = ret
    /\ UNCHANGED <<config, faults, ret, extractVars, scrollVars, blog,
                   current_page, overall_stats, errors, result, slog>>

-----------------------------------------------------------------------------
(* handle_button_pagination *)

NoAttr == [present |-> FALSE, value |-> <<>>]

Attr(v) == [present |-> TRUE, value |-> v]

\* Python truthiness of get_attribute's result: None and '' are false
Truthy(attr) == attr.present /\ attr.value # <<>>

\* 'disabled' in (class or ''): a test for a substring of the attribute
DisabledInClass(attr) ==
    attr.present /\ Contains(attr.value, <<"d", "i", "s", "a", "b", "l", "e", "d">>)

\* the buttons a page may show: the disabled attribute (absent, bare, or with
\* a value) and the class attribute (absent, "btn", "btn disabled", and the
\* utility class "btn disabled:dim" of a button that is not disabled)
Buttons ==
    IF "button" \in faults
    THEN [disabled : {NoAttr, Attr(<<>>), Attr(<<"d", "i", "s", "a", "b", "l", "e", "d">>)},
          class : {NoAttr, Attr(<<"b", "t", "n">>),
                   Attr(<<"b", "t", "n", " ", "d", "i", "s", "a", "b", "l", "e", "d">>),
                   Attr(<<"b", "t", "n", " ", "d", "i", "s", "a", "b", "l", "e", "d", ":", "d", "i", "m">>)}]
    ELSE {[disabled |-> NoAttr, class |-> Attr(<<"b", "t", "n">>)]}

\* the test of line 700
IsDisabled(button) ==
    Truthy(button.disabled) \/ DisabledInClass(button.class)

NoBlog ==
    [called |-> FALSE, found |-> FALSE, button |-> [disabled |-> NoAttr, class |-> NoAttr],
     click_attempted |-> FALSE, click_raised |-> FALSE, wait |-> "none",
     result |-> "none"]

\* the number of cards the next page may show: few, or as many as this one
NextPageCards == 0..MaxCards \cup {page.cards}

\* page.wait_for_selector(card_selector, timeout=10000) on a page that shows n
\* cards: it times out when no card appears, or when the cards are late
CardWait(n) ==
    (IF n > 0 THEN {OK} ELSE {Raise(TimeoutMsg)})
    \cup (IF "button" \in faults /\ page.alive THEN {Raise(TimeoutMsg)} ELSE {})
    \cup {c \in BrowserCall : IsClosure(c)}

ClickResultFalseOnFailedWait(wait) == IF wait.kind = "raise" THEN "False" ELSE "True"

\* what is returned after the click: the bare except around the wait prints a
\* warning, and `return True` follows in either case
ClickResult(wait) == "True"

ButtonPagination ==
    /\ pc = "b_entry"
    /\ UNCHANGED <<progVars, mainVars, metaVars, detailVars>>
    /\ LET log == [NoBlog EXCEPT !.called = TRUE]
       IN  IF ~config.pagination_selector
           THEN /\ pagination_success' = "False"
                /\ blog' = [log EXCEPT !.result = "False"]
                /\ UNCHANGED page
           ELSE \E q \in BrowserCall :
                   IF q.kind # "ok"
                   THEN \* button not found, or the query raised
                        /\ page' = AfterCall(q)
                        /\ pagination_success' = "False"
                        /\ blog' = [log EXCEPT !.result = "False"]
                   ELSE \E next_button \in Buttons :
                           IF IsDisabled(next_button)
                           THEN /\ pagination_success' = "False"
                                /\ blog' = [log EXCEPT !.found = TRUE,
                                               !.button = next_button,
                                               !.result = "False"]
                                /\ UNCHANGED page
                           ELSE \E click \in PlainCall, n \in NextPageCards :
                                   IF click.kind = "raise"
                                   THEN /\ page' = AfterCall(click)
                                        /\ pagination_success' = "False"
                                        /\ blog' = [log EXCEPT !.found = TRUE,
                                                       !.button = next_button,
                                                       !.click_attempted = TRUE,
                                                       !.click_raised = TRUE,
                                                       !.result = "False"]
                                   ELSE \E wait \in CardWait(n) :
                                        /\ page' = [AfterCall(wait) EXCEPT !.cards = n]
                                        /\ pagination_success' = ClickResult(wait)
                                        /\ blog' = [log EXCEPT !.found = TRUE,
                                                       !.button = next_button,
                                                       !.click_attempted = TRUE,
                                                       !.wait = ReadKind(wait),
                                                       !.result = ClickResult(wait)]
    /\ pc' = ret
    /\ UNCHANGED <<config, faults, ret, extractVars, scrollVars, ulog,
                   current_page, overall_stats, errors, result, slog>>

-----------------------------------------------------------------------------
(* handle_infinite_scroll *)

max_consecutive_attempts == 3

max_scrolls == 20

\* may the page show more cards after scroll number n
PageGrowsOn(n) == IF growK = -1 THEN {TRUE, FALSE} ELSE {n <= growK}

ScrollEntry ==
    /\ pc = "sc_entry"
    /\ UNCHANGED <<progVars, mainVars, metaVars, detailVars>>
    /\ \E o \in PlainCall :
          /\ page' = AfterCall(o)
          /\ IF o.kind = "raise"
             THEN /\ scroll_result' = "False"
                  /\ scroll_raised' = TRUE
                  /\ pc' = ret
                  /\ UNCHANGED initial_count
             ELSE /\ initial_count' = page.cards
                  /\ scroll_result' = "running"
                  /\ scroll_raised' = FALSE
                  /\ pc' = "sc_loop"
    /\ consecutive_no_load' = 0
    /\ total_scrolls' = 0
    /\ UNCHANGED <<config, faults, ret, extractVars, sessionVars, handlerLogs, growK>>

ScrollContinuesNoCap(consecutive, total) ==
    consecutive < max_consecutive_attempts

\* while consecutive_no_load < max_consecutive_attempts and total_scrolls < max_scrolls
ScrollContinues(consecutive, total) ==
    consecutive < max_consecutive_attempts /\ total < max_scrolls

\* one pass of the while loop
ScrollStep ==
    /\ pc = "sc_loop"
    /\ UNCHANGED <<progVars, mainVars, metaVars, detailVars>>
    /\ ScrollContinues(consecutive_no_load, total_scrolls)
    /\ \E o \in PlainCall :
          IF o.kind = "raise"
          THEN \* a browser call of the pass raised: the except branch returns False
               /\ page' = AfterCall(o)
               /\ \E counted \in {TRUE, FALSE} :
                     total_scrolls' = IF counted THEN total_scrolls + 1 ELSE total_scrolls
               /\ scroll_result' = "False"
               /\ scroll_raised' = TRUE
               /\ pc' = ret
               /\ UNCHANGED consecutive_no_load
          ELSE \E grows \in PageGrowsOn(total_scrolls + 1) :
                  LET before_scroll_count == page.cards
                      after_scroll_count == IF grows THEN page.cards + 1 ELSE page.cards
                  IN  /\ page' = [page EXCEPT !.cards = after_scroll_count]
                      /\ total_scrolls' = total_scrolls + 1
                      /\ consecutive_no_load' =
                            IF after_scroll_count > before_scroll_count
                            THEN 0
                            ELSE consecutive_no_load + 1
                      /\ UNCHANGED <<scroll_result, scroll_raised, pc>>
    /\ UNCHANGED <<config, faults, ret, extractVars, sessionVars, handlerLogs,
                   initial_count, growK>>

ScrollReturn ==
    /\ pc = "sc_loop"
    /\ UNCHANGED <<progVars, mainVars, metaVars, detailVars>>
    /\ ~ScrollContinues(consecutive_no_load, total_scrolls)
    /\ \E o \in PlainCall :
          /\ page' = AfterCall(o)
          /\ scroll_result' =
                IF o.kind = "ok" /\ page.cards - initial_count > 0
                THEN "True" ELSE "False"
          /\ scroll_raised' = (o.kind = "raise")
    /\ pc' = ret
    /\ UNCHANGED <<config, faults, ret, extractVars, sessionVars, handlerLogs,
                   initial_count, consecutive_no_load, total_scrolls, growK>>

ScrollNext == ScrollEntry \/ ScrollStep \/ ScrollReturn

-----------------------------------------------------------------------------
(* aggregate_stats, handle_pagination, scrape_single_company *)

aggregate_stats_takes_last(overall, pstats) ==
    [pstats EXCEPT !.browser_closed_early = @ \/ overall.browser_closed_early]

aggregate_stats(overall, pstats) ==
    [total_job_cards_found |-> overall.total_job_cards_found + pstats.total_job_cards_found,
     skipped_duplicates |-> overall.skipped_duplicates + pstats.skipped_duplicates,
     skipped_extraction_errors |->
         overall.skipped_extraction_errors + pstats.skipped_extraction_errors,
     successful_extractions |->
         overall.successful_extractions + pstats.successful_extractions,
     gemini_processing_errors |->
         overall.gemini_processing_errors + pstats.gemini_processing_errors,
     crawl4ai_errors |-> overall.crawl4ai_errors + pstats.crawl4ai_errors,
     browser_closed_early |->
         IF pstats.browser_closed_early THEN TRUE ELSE overall.browser_closed_early]

\* the entry position of the handler handle_pagination dispatches to
handle_pagination(pagination_type) ==
    IF pagination_type = "button_click" THEN "b_entry"
    ELSE IF pagination_type = "infinite_scroll" THEN "sc_entry"
    ELSE IF pagination_type = "url_param" THEN "u_entry"
    ELSE "return_False"

NoResult == [status |-> "none", pages_scraped |-> 0, jobs |-> <<>>]

NoSlog ==
    [passes |-> 0, advances |-> 0, advance_failed |-> FALSE,
     pass_after_failed_advance |-> FALSE, probe_raised |-> FALSE,
     closure_detected |-> FALSE, cookies_applied |-> 0,
     cookies_failed |-> FALSE]

\* page.goto(config['url']) and the cookie handling that follows it
Navigate ==
    /\ pc = "s_nav"
    /\ UNCHANGED <<progVars, mainVars, metaVars, detailVars>>
    /\ \E nav \in (IF ~page.alive THEN {Raise(TargetClosedMsg)}
                   ELSE {OK} \cup (IF "nav" \in faults
                                   THEN {Raise(TimeoutMsg)} ELSE {})),
          cookies \in {OK} \cup (IF "cookie" \in faults THEN {Raise(TimeoutMsg)} ELSE {}) :
          IF nav.kind = "raise"
          THEN /\ errors' = Append(errors, "Navigation error")
               /\ result' = [status |-> "failed", pages_scraped |-> 0, jobs |-> <<>>]
               /\ pc' = "s_done"
               /\ UNCHANGED <<page, slog>>
          ELSE /\ page' = [page EXCEPT !.url = config.url]
               /\ errors' = IF cookies.kind = "raise"
                            THEN Append(errors, "Cookie handling error")
                            ELSE errors
               /\ slog' = [slog EXCEPT
                     !.cookies_applied = @ + 1,
                     !.cookies_failed = @ \/ cookies.kind = "raise"]
               /\ pc' = "s_wait"
               /\ UNCHANGED result
    /\ UNCHANGED <<config, faults, ret, extractVars, scrollVars, handlerLogs,
                   current_page, overall_stats, pagination_success>>

\* the wait for the card selector, and the set-up of the page loop
WaitForCards ==
    /\ pc = "s_wait"
    /\ UNCHANGED <<progVars, mainVars, metaVars, detailVars>>
    /\ \E o \in (IF page.cards > 0 THEN {OK} ELSE {Raise(TimeoutMsg)})
                 \cup {c \in BrowserCall : IsClosure(c)} :
          /\ page' = AfterCall(o)
          /\ errors' = IF o.kind = "raise"
                       THEN Append(errors, "Job cards not found")
                       ELSE errors
    /\ all_jobs' = <<>>
    /\ current_page' = 0
    /\ overall_stats' = ZeroStats
    /\ IF config.pagination_type = "infinite_scroll"
       THEN pc' = "sc_entry" /\ ret' = "s_scrolled"
       ELSE pc' = "s_loop" /\ UNCHANGED ret
    /\ UNCHANGED <<config, faults, existing_jobs, jobs, stats, job_cards, i,
                   browser_closed, job_data, page_stats, xlog, pagination_success,
                   result, slog, scrollVars, handlerLogs>>

ExtractAfterScrollOnlyIfLoaded(scrolled) == scrolled = "True"

\* handle_infinite_scroll(page, config, 0) is called as a statement: what it
\* returns is dropped and the extraction follows
ExtractAfterScroll(scrolled) == TRUE

\* infinite scroll: everything is scrolled in first, then one extraction
ScrolledExtract ==
    /\ pc = "s_scrolled"
    /\ UNCHANGED <<progVars, mainVars, metaVars, detailVars>>
    /\ IF ExtractAfterScroll(scroll_result)
       THEN /\ pc' = "x_entry"
            /\ ret' = "s_scroll_extracted"
            /\ slog' = [slog EXCEPT !.passes = @ + 1]
       ELSE /\ pc' = "s_finish"
            /\ UNCHANGED <<ret, slog>>
    /\ UNCHANGED <<envVars, extractVars, scrollVars, handlerLogs, current_page,
                   overall_stats, errors, pagination_success, result>>

AfterScrollExtract ==
    /\ pc = "s_scroll_extracted"
    /\ UNCHANGED <<progVars, mainVars, metaVars, detailVars>>
    /\ overall_stats' = aggregate_stats(overall_stats, page_stats)
    /\ current_page' = 1
    /\ slog' = [slog EXCEPT !.closure_detected = @ \/ xlog.closedWhere # "none"]
    /\ pc' = "s_finish"
    /\ UNCHANGED <<envVars, ret, extractVars, scrollVars, handlerLogs, errors,
                   pagination_success, result>>

PageLoopContinues(pages, collected) ==
    pages < config.max_pages /\ collected < config.max_jobs

\* while current_page < max_pages and len(all_jobs) < config['max_jobs']
PageLoopHead ==
    /\ pc = "s_loop"
    /\ UNCHANGED <<progVars, mainVars, metaVars, detailVars>>
    /\ IF PageLoopContinues(current_page, Len(all_jobs))
       THEN pc' = "s_live"
       ELSE pc' = "s_finish"
    /\ UNCHANGED <<envVars, ret, extractVars, scrollVars, handlerLogs, sessionVars>>

\* the page-alive probe, then the call of extract_job_data
PageLoopExtract ==
    /\ pc = "s_live"
    /\ UNCHANGED <<progVars, mainVars, metaVars, detailVars>>
    /\ \E o \in UrlProbe :
          IF o.kind = "raise"
          THEN /\ pc' = "s_finish"
               /\ slog' = [slog EXCEPT !.probe_raised = TRUE]
               /\ UNCHANGED ret
          ELSE /\ pc' = "x_entry"
               /\ ret' = "s_extracted"
               /\ slog' = [slog EXCEPT
                     !.passes = @ + 1,
                     !.pass_after_failed_advance = @ \/ slog.advance_failed]
    /\ UNCHANGED <<envVars, extractVars, scrollVars, handlerLogs, current_page,
                   overall_stats, errors, pagination_success, result>>

AdvanceWantedIgnoringType(pages) ==
    pages < config.max_pages

AdvanceWantedInclusive(pages) ==
    pages <= config.max_pages /\ config.pagination_type # "none"

\* if current_page < max_pages and config.get('pagination_type') != 'none'
AdvanceWanted(pages) ==
    pages < config.max_pages /\ config.pagination_type # "none"

\* after the extraction: aggregate, stop on max_jobs, count the page, advance
AfterExtract ==
    /\ pc = "s_extracted"
    /\ UNCHANGED <<progVars, mainVars, metaVars, detailVars>>
    /\ overall_stats' = aggregate_stats(overall_stats, page_stats)
    /\ IF Len(all_jobs) >= config.max_jobs
       THEN /\ pc' = "s_finish"
            /\ slog' = [slog EXCEPT !.closure_detected = @ \/ xlog.closedWhere # "none"]
            /\ UNCHANGED <<current_page, ret, pagination_success>>
       ELSE /\ current_page' = current_page + 1
            /\ IF AdvanceWanted(current_page + 1)
               THEN /\ slog' = [slog EXCEPT
                          !.advances = @ + 1,
                          !.closure_detected = @ \/ xlog.closedWhere # "none"]
                    /\ IF handle_pagination(config.pagination_type) = "return_False"
                       THEN /\ pagination_success' = "False"
                            /\ pc' = "s_advanced"
                            /\ UNCHANGED ret
                       ELSE /\ pc' = handle_pagination(config.pagination_type)
                            /\ ret' = "s_advanced"
                            /\ UNCHANGED pagination_success
               ELSE /\ pc' = "s_finish"
                    /\ slog' = [slog EXCEPT
                          !.closure_detected = @ \/ xlog.closedWhere # "none"]
                    /\ UNCHANGED <<ret, pagination_success>>
    /\ UNCHANGED <<envVars, extractVars, scrollVars, handlerLogs, errors, result>>

\* if not pagination_success: break; an exception out of the handler ends the loop too
AfterAdvance ==
    /\ pc = "s_advanced"
    /\ UNCHANGED <<progVars, mainVars, metaVars, detailVars>>
    /\ IF pagination_success = "True"
       THEN /\ pc' = "s_loop"
            /\ UNCHANGED <<errors, slog>>
       ELSE /\ pc' = "s_finish"
            /\ slog' = [slog EXCEPT !.advance_failed = TRUE]
            /\ errors' = IF pagination_success = "raised"
                         THEN Append(errors, "Error on page")
                         ELSE errors
    /\ UNCHANGED <<envVars, ret, extractVars, scrollVars, handlerLogs, current_page,
                   overall_stats, pagination_success, result>>

\* the summary returned at the end of the session
Finish ==
    /\ pc = "s_finish"
    /\ UNCHANGED <<progVars, mainVars, metaVars, detailVars>>
    /\ result' = [status |-> IF errors = <<>> THEN "success" ELSE "partial_success",
                  pages_scraped |-> current_page,
                  jobs |-> all_jobs]
    /\ pc' = "s_done"
    /\ UNCHANGED <<envVars, ret, extractVars, scrollVars, handlerLogs, current_page,
                   overall_stats, errors, pagination_success, slog>>

SessionNext ==
    \/ Navigate
    \/ WaitForCards
    \/ ScrolledExtract
    \/ AfterScrollExtract
    \/ PageLoopHead
    \/ PageLoopExtract
    \/ AfterExtract
    \/ AfterAdvance
    \/ Finish

-----------------------------------------------------------------------------
(* crawl_ex.py: UniversalJobScraper.process_jobs_with_progressive_loading *)

batch_size == 10

U_plain == <<"/", "j">>

U_detail == <<"/", "j", "/", "d">>

\* how card k of the simulated listing behaves when it is processed
CardKind(k) ==
    IF \E odd \in site.odd : odd[1] = k
    THEN (CHOOSE odd \in site.odd : odd[1] = k)[2]
    ELSE "nav"

\* the load-more control: offered while the site has more cards to show;
\* a page that is not the listing has no such control
LoadMoreButton ==
    IF page.url # U_plain THEN "absent"
    ELSE IF page.cards < site.total THEN "enabled" ELSE site.button_when_done

NoPlog ==
    [load_attempts |-> 0, load_clicks |-> 0,
     fresh |-> TRUE,          \* job_cards was resolved after the last DOM change
     stale_read |-> FALSE,    \* a card was read through an older job_cards
     visited |-> {},          \* card indices the for loop has taken in hand
     skipped |-> {},          \* card indices found without a click target
     lost_at |-> -1,          \* card at which the listing could not be restored
     lost_open |-> FALSE,     \* ... and the card loop it broke is not yet left
     after_lost |-> FALSE,    \* a card was handled in that loop after the break
     closed_with |-> -1,      \* records collected when the browser went away
     click_processed |-> -1,  \* processed_count at the last load-more click
     click_rendered |-> -1,   \* rendered cards at the last load-more click
     click_after |-> -1,      \* rendered cards after the last load-more click
     button_seen |-> "none",  \* the control as found at the last attempt
     reported |-> {}]         \* positions of job_data whose link the store holds

\* does the browser go away during this call
Closes == IF "closed" \in faults /\ page.alive THEN {FALSE, TRUE} ELSE {FALSE}

NoteClosure(l) ==
    IF l.closed_with = -1 THEN [l EXCEPT !.closed_with = Len(self_job_data)] ELSE l

\* the head of the while loop: resolve the handles, size the batch
ProgressiveTop ==
    /\ pc = "pl_top"
    /\ \E closes \in Closes :
          IF closes \/ ~page.alive
          THEN \* page.locator(...).all() raises, nothing here catches it
               /\ page' = [page EXCEPT !.alive = FALSE]
               /\ plog' = NoteClosure(plog)
               /\ pc' = "sj_except"
               /\ UNCHANGED <<card_handles, available_jobs, jobs_to_process,
                              batch_processed, bi>>
          ELSE /\ card_handles' = page.cards
               /\ available_jobs' = page.cards
               /\ plog' = [plog EXCEPT !.fresh = TRUE]
               /\ LET n == IF batch_size < page.cards - processed_count
                           THEN batch_size ELSE page.cards - processed_count
                  IN  /\ jobs_to_process' = n
                      /\ IF n <= 0
                         THEN /\ pc' = "pl_done"
                              /\ UNCHANGED <<batch_processed, bi>>
                         ELSE /\ batch_processed' = 0
                              /\ bi' = processed_count
                              /\ pc' = "pl_card"
               /\ UNCHANGED page
    /\ UNCHANGED <<config, faults, ret, extractVars, sessionVars, scrollVars, mainVars, metaVars, detailVars,
                   handlerLogs, site, processed_count, total_processed,
                   self_job_data, page_num, total_jobs, sj_result, cleaned_jobs,
                   special_result, future>>

JobInfo(k, link) == [card |-> k, apply_link |-> link,
                     batch_number |-> (processed_count \div batch_size) + 1]

\* what can happen to the card at index k of a list of n handles
CardOutcomes(k, n) ==
    IF ~page.alive \/ k >= n
    THEN {"error"}
    ELSE {CardKind(k)}
         \cup (IF "closed" \in faults THEN {"closed_early", "closed_late"} ELSE {})

\* the history of one pass of a card loop: the card in hand is read through
\* the list as it stands, then the pass changes the page or not
CardNote(l, k, n, kind) ==
    [l EXCEPT
       !.visited = @ \cup {k},
       !.skipped = IF kind = "no_target" THEN @ \cup {k} ELSE @,
       !.stale_read = @ \/ (k < n /\ ~l.fresh),
       !.fresh = CASE kind \in {"nav", "back_fails"} -> TRUE
                   [] kind \in {"modal", "back_slow", "lost", "closed_late"} -> FALSE
                   [] OTHER -> @,
       !.lost_at = IF kind = "lost" THEN k ELSE @,
       !.lost_open = @ \/ kind = "lost",
       !.after_lost = @ \/ l.lost_open,
       !.closed_with = IF kind \in {"closed_early", "closed_late"} /\ @ = -1
                       THEN Len(self_job_data) ELSE @]

\* one pass of the for loop over the batch
ProcessCard ==
    /\ pc = "pl_card"
    /\ bi < processed_count + jobs_to_process
    /\ \E kind \in CardOutcomes(bi, card_handles) :
       LET appended(link) ==
               /\ self_job_data' = Append(self_job_data, JobInfo(bi, link))
               /\ batch_processed' = batch_processed + 1
               /\ total_processed' = total_processed + 1
           skipped == UNCHANGED <<self_job_data, batch_processed, total_processed>>
       IN  /\ plog' = CardNote(plog, bi, card_handles, kind)
           /\ CASE kind = "error" ->
                   \* job_cards[i] or the scroll into view raised: except ... continue
                   /\ skipped
                   /\ bi' = bi + 1
                   /\ UNCHANGED <<pc, page, card_handles>>
             [] kind = "closed_early" ->
                   \* the same, the error being that the browser is gone
                   /\ skipped
                   /\ bi' = bi + 1
                   /\ page' = [page EXCEPT !.alive = FALSE]
                   /\ UNCHANGED <<pc, card_handles>>
             [] kind = "no_target" ->
                   \* nothing to click: apply_link = N/A, continue
                   /\ skipped
                   /\ bi' = bi + 1
                   /\ UNCHANGED <<pc, page, card_handles>>
             [] kind = "modal" ->
                   \* clicked, the URL did not change: no way back is needed
                   /\ appended("listing")
                   /\ bi' = bi + 1
                   /\ UNCHANGED <<pc, page, card_handles>>
             [] kind = "nav" ->
                   \* clicked, detail page read, go_back, handles resolved anew
                   /\ appended("detail")
                   /\ card_handles' = page.cards
                   /\ bi' = bi + 1
                   /\ UNCHANGED <<pc, page>>
             [] kind = "back_slow" ->
                   \* go_back returned to the listing, the wait for the cards
                   \* raised: the URL is the listing's, nothing is resolved anew
                   /\ appended("N/A")
                   /\ bi' = bi + 1
                   /\ UNCHANGED <<pc, page, card_handles>>
             [] kind = "back_fails" ->
                   \* go_back failed, the listing was loaded again
                   /\ \E n \in {page.cards, Min(page.cards, site.first)} :
                         /\ page' = [page EXCEPT !.cards = n]
                         /\ card_handles' = n
                   /\ appended("N/A")
                   /\ bi' = bi + 1
                   /\ UNCHANGED pc
             [] kind = "lost" ->
                   \* neither go_back nor the reload worked: break
                   /\ skipped
                   /\ \E n \in {0, page.cards} :
                         page' = [page EXCEPT !.url = U_detail, !.cards = n]
                   /\ pc' = "pl_batch_end"
                   /\ UNCHANGED <<bi, card_handles>>
             [] kind = "closed_late" ->
                   \* the browser went away on the detail page: the reload
                   \* raises as well, break
                   /\ skipped
                   /\ page' = [page EXCEPT !.url = U_detail, !.alive = FALSE]
                   /\ pc' = "pl_batch_end"
                   /\ UNCHANGED <<bi, card_handles>>
    /\ UNCHANGED <<config, faults, ret, extractVars, sessionVars, scrollVars, mainVars, metaVars, detailVars,
                   handlerLogs, site, available_jobs, processed_count,
                   jobs_to_process, page_num, total_jobs, sj_result, cleaned_jobs,
                   special_result, future>>

LoadMoreWantedAlways(processed, current_jobs) == TRUE

\* if processed_count >= current_jobs
LoadMoreWanted(processed, current_jobs) == processed >= current_jobs

LoadMoreClickableUnlessAbsent(button) == button # "absent"

\* if is_visible and is_disabled != "true"
LoadMoreClickable(button) == button \in {"enabled", "disabled_bare"}

\* load_more_button.click(): a control that carries a bare disabled attribute
\* is either not actionable (the click times out) or clicked without effect
ClickOutcomes(button) ==
    IF button = "disabled_bare" THEN {"no_effect", "raises"} ELSE {"loads"}

\* after the batch: count it, and click the load-more control when every
\* rendered card has been processed
BatchEnd ==
    /\ \/ pc = "pl_batch_end"
       \/ pc = "pl_card" /\ bi >= processed_count + jobs_to_process
    /\ processed_count' = processed_count + batch_processed
    /\ \E closes \in Closes :
       IF closes \/ ~page.alive
       THEN \* page.locator(...).count() raises, nothing here catches it
            /\ page' = [page EXCEPT !.alive = FALSE]
            /\ plog' = NoteClosure(plog)
            /\ pc' = "sj_except"
            /\ UNCHANGED card_handles
       ELSE
       LET current_jobs == page.cards
           button == LoadMoreButton
       IN  IF LoadMoreWanted(processed_count + batch_processed, current_jobs)
           THEN IF LoadMoreClickable(button)
                THEN \E o \in ClickOutcomes(button) :
                     LET new_job_count ==
                             IF o = "loads"
                             THEN Min(site.total, page.cards + site.step)
                             ELSE page.cards
                         note == [plog EXCEPT
                                    !.lost_open = FALSE,
                                    !.load_attempts = @ + 1,
                                    !.load_clicks = @ + 1,
                                    !.button_seen = button,
                                    !.click_processed = processed_count + batch_processed,
                                    !.click_rendered = current_jobs]
                     IN  IF o = "raises"
                         THEN /\ plog' = note
                              /\ pc' = "sj_except"
                              /\ UNCHANGED <<page, card_handles>>
                         ELSE /\ page' = [page EXCEPT !.cards = new_job_count]
                              /\ IF new_job_count > current_jobs
                                 THEN /\ card_handles' = new_job_count
                                      /\ plog' = [note EXCEPT
                                                    !.fresh = TRUE,
                                                    !.click_after = new_job_count]
                                      /\ pc' = "pl_top"
                                 ELSE /\ plog' = [note EXCEPT
                                                    !.fresh = FALSE,
                                                    !.click_after = new_job_count]
                                      /\ pc' = "pl_done"
                                      /\ UNCHANGED card_handles
                ELSE \* absent, hidden, or disabled="true"
                     /\ plog' = [plog EXCEPT !.load_attempts = @ + 1,
                                             !.button_seen = button,
                                             !.lost_open = FALSE]
                     /\ pc' = "pl_done"
                     /\ UNCHANGED <<page, card_handles>>
           ELSE /\ pc' = "pl_top"
                /\ plog' = [plog EXCEPT !.lost_open = FALSE]
                /\ UNCHANGED <<page, card_handles>>
    /\ UNCHANGED <<config, faults, ret, extractVars, sessionVars, scrollVars, mainVars, metaVars, detailVars,
                   handlerLogs, site, available_jobs, total_processed,
                   jobs_to_process, batch_processed, bi, self_job_data,
                   page_num, total_jobs, sj_result, cleaned_jobs, special_result, future>>

ProgressiveNext == ProgressiveTop \/ ProcessCard \/ BatchEnd

-----------------------------------------------------------------------------
(* crawl_ex.py: UniversalJobScraper.scrape_jobs; Final_Scraper copy.py:    *)
(* handle_special_case_scraping, scrape_special_case_company               *)

NoSpecialResult == [status |-> "none", jobs |-> <<>>, errors |-> <<>>,
                    pages_scraped |-> 0, browser_closed_early |-> FALSE]

\* page.goto(self.careers_url) and the branch on the pagination type
ScrapeJobsStart ==
    /\ pc = "sj_goto"
    /\ \E o \in {"ok"} \cup (IF "nav" \in faults THEN {"raise"} ELSE {})
                       \cup (IF "closed" \in faults THEN {"closed"} ELSE {}) :
          CASE o = "raise" ->
                  /\ pc' = "sj_except"
                  /\ UNCHANGED <<page, plog>>
            [] o = "closed" ->
                  /\ page' = [page EXCEPT !.alive = FALSE]
                  /\ plog' = NoteClosure(plog)
                  /\ pc' = "sj_except"
            [] o = "ok" ->
                  /\ page' = [page EXCEPT !.url = U_plain, !.cards = site.first]
                  /\ pc' = IF config.pagination_type = "Load_more"
                           THEN "pl_top" ELSE "g_top"
                  /\ UNCHANGED plog
    /\ page_num' = 1
    /\ total_jobs' = 0
    /\ UNCHANGED <<config, faults, ret, extractVars, sessionVars, scrollVars, mainVars, metaVars, detailVars,
                   handlerLogs, site, card_handles, available_jobs, processed_count,
                   total_processed, jobs_to_process, batch_processed, bi,
                   self_job_data, sj_result, cleaned_jobs, special_result, future>>

\* the page loop for the other pagination types: wait for the cards, list them
GenericTop ==
    /\ pc = "g_top"
    /\ IF ~page.alive \/ page.cards = 0
       THEN \* wait_for_selector raised: break
            /\ pc' = "g_done"
            /\ UNCHANGED <<page, plog, card_handles, bi>>
       ELSE \E closes \in Closes :
            IF closes
            THEN \* page.locator(...).all() raises, nothing in the loop catches it
                 /\ page' = [page EXCEPT !.alive = FALSE]
                 /\ plog' = NoteClosure(plog)
                 /\ pc' = "sj_except"
                 /\ UNCHANGED <<card_handles, bi>>
            ELSE /\ card_handles' = page.cards
                 /\ bi' = 0
                 /\ plog' = [plog EXCEPT !.fresh = TRUE]
                 /\ pc' = "g_card"
                 /\ UNCHANGED page
    /\ UNCHANGED <<config, faults, ret, extractVars, sessionVars, scrollVars, mainVars, metaVars, detailVars,
                   handlerLogs, site, available_jobs, processed_count,
                   total_processed, jobs_to_process, batch_processed,
                   self_job_data, page_num, total_jobs, sj_result, cleaned_jobs,
                   special_result, future>>

PageJobInfo(k, link) == [card |-> k, apply_link |-> link, page_number |-> page_num]

\* the history of one pass of this loop: its list of cards is never resolved anew
PageCardNote(l, k, n, kind) ==
    [CardNote(l, k, n, kind) EXCEPT
       !.fresh = IF kind \in {"nav", "back_fails", "modal", "back_slow", "lost",
                              "closed_late"}
                 THEN FALSE ELSE l.fresh]

\* one pass of the for loop over the cards of the page
GenericCard ==
    /\ pc = "g_card"
    /\ bi < card_handles
    /\ \E kind \in CardOutcomes(bi, card_handles) :
       LET appended(link) ==
               /\ self_job_data' = Append(self_job_data, PageJobInfo(bi, link))
               /\ total_jobs' = total_jobs + 1
           skipped == UNCHANGED <<self_job_data, total_jobs>>
       IN  /\ plog' = PageCardNote(plog, bi, card_handles, kind)
           /\ CASE kind \in {"error", "no_target"} ->
                   /\ skipped
                   /\ bi' = bi + 1
                   /\ UNCHANGED <<pc, page>>
             [] kind = "closed_early" ->
                   /\ skipped
                   /\ bi' = bi + 1
                   /\ page' = [page EXCEPT !.alive = FALSE]
                   /\ UNCHANGED pc
             [] kind = "modal" ->
                   \* the URL did not change: apply_link = N/A
                   /\ appended("N/A")
                   /\ bi' = bi + 1
                   /\ UNCHANGED <<pc, page>>
             [] kind = "nav" ->
                   /\ appended("detail")
                   /\ bi' = bi + 1
                   /\ UNCHANGED <<pc, page>>
             [] kind \in {"back_slow", "back_fails"} ->
                   /\ appended("N/A")
                   /\ bi' = bi + 1
                   /\ UNCHANGED <<pc, page>>
             [] kind = "lost" ->
                   /\ skipped
                   /\ \E n \in {0, page.cards} :
                         page' = [page EXCEPT !.url = U_detail, !.cards = n]
                   /\ pc' = "g_paginate"
                   /\ UNCHANGED bi
             [] kind = "closed_late" ->
                   /\ skipped
                   /\ page' = [page EXCEPT !.url = U_detail, !.alive = FALSE]
                   /\ pc' = "g_paginate"
                   /\ UNCHANGED bi
    /\ UNCHANGED <<config, faults, ret, extractVars, sessionVars, scrollVars, mainVars, metaVars, detailVars,
                   handlerLogs, site, card_handles, available_jobs, processed_count,
                   total_processed, jobs_to_process, batch_processed, page_num,
                   sj_result, cleaned_jobs, special_result, future>>

\* the next-page control of a listing that shows site.first cards a page
NextButton ==
    IF page.url # U_plain THEN "absent"
    ELSE IF page_num * site.first < site.total THEN "enabled"
    ELSE site.button_when_done

\* the step to the next page after the cards of the page
GenericPaginate ==
    /\ \/ pc = "g_paginate"
       \/ pc = "g_card" /\ bi >= card_handles
    /\ IF config.pagination_type = "button_click" /\ page.alive
          /\ NextButton \in {"enabled", "disabled_bare"}
       THEN \E o \in ClickOutcomes(NextButton) :
            CASE o = "loads" ->
                 \* clicked; the cards of the next page are awaited
                 /\ page_num' = page_num + 1
                 /\ page' = [page EXCEPT !.cards =
                        IF site.total <= page_num * site.first THEN 0
                        ELSE Min(site.first, site.total - page_num * site.first)]
                 /\ pc' = "g_top"
              [] o = "no_effect" ->
                 \* clicked, the same page stays: its cards are found again
                 /\ page_num' = page_num + 1
                 /\ pc' = IF page_num < MaxPageNum THEN "g_top" ELSE "g_done"
                 /\ UNCHANGED page
              [] o = "raises" ->
                 \* the click raised: break
                 /\ pc' = "g_done"
                 /\ UNCHANGED <<page, page_num>>
       ELSE \* not button_click, no control, control disabled, or an error: break
            /\ pc' = "g_done"
            /\ UNCHANGED <<page, page_num>>
    /\ plog' = [plog EXCEPT !.lost_open = FALSE]
    /\ UNCHANGED <<config, faults, ret, extractVars, sessionVars, scrollVars, mainVars, metaVars, detailVars,
                   handlerLogs, site, card_handles, available_jobs, processed_count,
                   total_processed, jobs_to_process, batch_processed, bi,
                   self_job_data, total_jobs, sj_result, cleaned_jobs,
                   special_result, future>>

GenericNext == GenericTop \/ GenericCard \/ GenericPaginate

\* return self.job_data; finally: browser.close()
ScrapeJobsReturn ==
    /\ pc \in {"pl_done", "g_done"}
    /\ sj_result' = self_job_data
    /\ page' = [page EXCEPT !.alive = FALSE]
    /\ pc' = "h_convert"
    /\ UNCHANGED <<config, faults, ret, extractVars, sessionVars, scrollVars, mainVars, metaVars, detailVars,
                   handlerLogs, site, card_handles, available_jobs, processed_count,
                   total_processed, jobs_to_process, batch_processed, bi,
                   self_job_data, plog, page_num, total_jobs, cleaned_jobs,
                   special_result, future>>

\* except Exception: return []; finally: browser.close()
ScrapeJobsExcept ==
    /\ pc = "sj_except"
    /\ sj_result' = <<>>
    /\ page' = [page EXCEPT !.alive = FALSE]
    /\ pc' = "h_convert"
    /\ UNCHANGED <<config, faults, ret, extractVars, sessionVars, scrollVars, mainVars, metaVars, detailVars,
                   handlerLogs, site, card_handles, available_jobs, processed_count,
                   total_processed, jobs_to_process, batch_processed, bi,
                   self_job_data, plog, page_num, total_jobs, cleaned_jobs,
                   special_result, future>>

\* the records of job_data the store does not report, in their order;
\* found is the set of positions whose lookup reports a row
RECURSIVE NotInStore(_, _, _)
NotInStore(job_data_list, found, k) ==
    IF k > Len(job_data_list) THEN <<>>
    ELSE LET job == job_data_list[k]
             lookup == IF k \in found THEN Rows(1) ELSE Rows(0)
         IN  (IF check_apply_link_exists(job.apply_link, lookup)
              THEN <<>> ELSE <<job>>)
             \o NotInStore(job_data_list, found, k + 1)

\* handle_special_case_scraping after scraper.scrape_jobs() has returned
HandleSpecialCase ==
    /\ pc = "h_convert"
    /\ \E found \in (IF "dup" \in faults
                     THEN SUBSET (1..Len(sj_result)) ELSE {{}}) :
          /\ cleaned_jobs' = NotInStore(sj_result, found, 1)
          /\ plog' = [plog EXCEPT !.reported = found]
    /\ pc' = "sp_finish"
    /\ UNCHANGED <<config, faults, page, ret, extractVars, sessionVars, scrollVars, mainVars,
                   metaVars, detailVars, handlerLogs, site, card_handles, available_jobs,
                   processed_count, total_processed, jobs_to_process, batch_processed,
                   bi, self_job_data, page_num, total_jobs, sj_result,
                   special_result, future>>

\* the worker thread has returned from run_async_in_thread
WorkerDone == pc \in {"sp_finish", "sp_done"}

\* future.result(timeout=300) raises TimeoutError: the worker is still running
\* after 300 seconds
BudgetExpires ==
    /\ "slow" \in faults
    /\ ~WorkerDone
    /\ future = "pending"
    /\ future' = "timeout"
    /\ UNCHANGED <<config, faults, page, pc, ret, extractVars, sessionVars, scrollVars,
                   mainVars, metaVars, detailVars, handlerLogs, site, card_handles, available_jobs,
                   processed_count, total_processed, jobs_to_process,
                   batch_processed, bi, self_job_data, plog, page_num, total_jobs,
                   sj_result, cleaned_jobs, special_result>>

\* the result of the except block of scrape_special_case_company
SpecialFailed ==
    [status |-> "failed", jobs |-> <<>>, errors |-> <<"TimeoutError">>,
     pages_scraped |-> 0, browser_closed_early |-> FALSE]

\* scrape_special_case_company after the worker has returned: with the
\* worker's list, every prepared job is kept and the summary is built; after
\* a TimeoutError, leaving the with block has waited for the worker
\* (ThreadPoolExecutor.__exit__ is shutdown(wait=True)) and the except block
\* builds the result
SpecialFinish ==
    /\ pc = "sp_finish"
    /\ special_result' =
          IF future = "timeout" THEN SpecialFailed
          ELSE [status |-> "completed", jobs |-> cleaned_jobs,
                errors |-> <<>>, pages_scraped |-> 1,
                browser_closed_early |-> FALSE]
    /\ pc' = "sp_done"
    /\ UNCHANGED <<config, faults, page, ret, extractVars, sessionVars, scrollVars, mainVars, metaVars, detailVars,
                   handlerLogs, site, card_handles, available_jobs, processed_count,
                   total_processed, jobs_to_process, batch_processed, bi,
                   self_job_data, plog, page_num, total_jobs, sj_result,
                   cleaned_jobs, future>>

SpecialNext ==
    \/ ScrapeJobsStart
    \/ ProgressiveNext
    \/ GenericNext
    \/ ScrapeJobsReturn
    \/ ScrapeJobsExcept
    \/ HandleSpecialCase
    \/ BudgetExpires
    \/ SpecialFinish

-----------------------------------------------------------------------------
(* Configurations and initial states *)

MaxPages == 3

MaxJobs == 2

U_query == <<"/", "j", "?", "q", "=", "7">>

U_page1 == <<"/", "j", "?", "p", "a", "g", "e", "=", "1">>

U_perpage == <<"/", "j", "?", "p", "e", "r", "p", "a", "g", "e", "=", "9", "&",
               "p", "a", "g", "e", "=", "1">>

BaseConfig ==
    [pagination_type |-> "none", max_pages |-> 1, max_jobs |-> 3,
     title_selector |-> TRUE, location_selector |-> TRUE,
     posted_selector |-> FALSE, description_selector |-> FALSE,
     link_selector |-> TRUE, metadata_selector |-> FALSE,
     use_metadata_parsing |-> FALSE, pagination_selector |-> FALSE,
     url |-> U_plain, pagination_param |-> P_page, pagination_step |-> 1]

PriorJob ==
    [src |-> <<0, 0>>, title |-> "text", location |-> "text",
     posted_date |-> "text", description |-> "text", apply_link |-> "url",
     by |-> "gemini"]

ExtractConfigs ==
    {BaseConfig,
     [BaseConfig EXCEPT !.max_jobs = 1],
     [BaseConfig EXCEPT !.title_selector = FALSE, !.link_selector = FALSE],
     [BaseConfig EXCEPT !.metadata_selector = TRUE, !.use_metadata_parsing = TRUE],
     [BaseConfig EXCEPT !.posted_selector = TRUE, !.description_selector = TRUE,
                        !.location_selector = FALSE]}

\* a site whose cards give a title and a link only
LeanConfig ==
    [BaseConfig EXCEPT !.location_selector = FALSE, !.max_jobs = MaxJobs]

UrlParamChoices ==
    {[url |-> U_plain, param |-> P_page, step |-> 1],
     [url |-> U_query, param |-> P_pg, step |-> 1],
     [url |-> U_page1, param |-> P_page, step |-> 7],
     [url |-> U_perpage, param |-> P_page, step |-> 1],
     [url |-> U_query, param |-> P_p, step |-> 1],
     [url |-> U_plain, param |-> P_startrow, step |-> 25],
     [url |-> U_query, param |-> P_jobOffset, step |-> 10]}

SessionConfigs ==
    {[LeanConfig EXCEPT !.pagination_type = t, !.max_pages = mp, !.max_jobs = mj,
                        !.pagination_selector = sel] :
        t \in {"none", "button_click", "Load_more"}, mp \in 1..MaxPages,
        mj \in 0..MaxJobs, sel \in {TRUE, FALSE}}
    \cup
    {[LeanConfig EXCEPT !.pagination_type = "url_param", !.max_pages = mp,
                        !.url = c.url, !.pagination_param = c.param,
                        !.pagination_step = c.step] :
        mp \in 1..MaxPages, c \in UrlParamChoices}
    \cup
    {[LeanConfig EXCEPT !.pagination_type = "infinite_scroll", !.max_pages = mp] :
        mp \in 1..MaxPages}

SessionFaults ==
    {{"closed"}, {"nav", "cookie", "dup"}, {"absent", "button"}, {"error"}}

NoOutput == [saved |-> FALSE, companies |-> <<>>]

IdleMain ==
    /\ companies_config = <<>>
    /\ ci = 0
    /\ all_results = <<>>
    /\ output = NoOutput

NoDlog ==
    [container_wait |-> "none",  \* how the wait for the container went
     content_wait |-> "none",    \* how the wait for its content went
     tried |-> {},               \* fields whose selectors were gone through
     read |-> {},                \* fields one of whose selectors gave a text
     raised |-> "none",          \* the call whose exception reached the outer except
     excepted |-> FALSE]         \* the outer except block has run

IdleDetails ==
    /\ detail_selectors = <<>>
    /\ detail_container = "none"
    /\ job_details = <<>>
    /\ field_i = 0
    /\ dlog = NoDlog

IdleMetadata ==
    /\ metadata_text = <<>>
    /\ parsed = <<>>

IdleExtract ==
    /\ existing_jobs = <<>>
    /\ jobs = <<>>
    /\ stats = ZeroStats
    /\ job_cards = 0
    /\ i = 0
    /\ browser_closed = FALSE
    /\ job_data = NoJobData
    /\ page_stats = ZeroStats
    /\ xlog = NoLog

IdleSession ==
    /\ current_page = 0
    /\ overall_stats = ZeroStats
    /\ errors = <<>>
    /\ pagination_success = "none"
    /\ result = NoResult
    /\ slog = NoSlog
    /\ blog = NoBlog
    /\ ulog = NoUlog

IdleScroll ==
    /\ initial_count = 0
    /\ consecutive_no_load = 0
    /\ total_scrolls = 0
    /\ scroll_result = "none"
    /\ scroll_raised = FALSE

NoSite == [total |-> 0, first |-> 0, step |-> 0, odd |-> {},
           button_when_done |-> "absent"]

IdleProgressive ==
    /\ card_handles = 0
    /\ available_jobs = 0
    /\ processed_count = 0
    /\ total_processed = 0
    /\ jobs_to_process = 0
    /\ batch_processed = 0
    /\ bi = 0
    /\ self_job_data = <<>>
    /\ plog = NoPlog
    /\ page_num = 0
    /\ total_jobs = 0
    /\ sj_result = <<>>
    /\ cleaned_jobs = <<>>
    /\ special_result = NoSpecialResult
    /\ future = "pending"

\* scrape_single_company(page, config, ...)
Init ==
    /\ config \in SessionConfigs
    /\ faults \in SessionFaults
    /\ page \in [url : {<<>>}, cards : 0..MaxCards, alive : {TRUE}]
    /\ growK \in IF config.pagination_type = "infinite_scroll" THEN {0, 1} ELSE {0}
    /\ pc = "s_nav"
    /\ ret = "none"
    /\ all_jobs = <<>>
    /\ IdleExtract
    /\ IdleMetadata
    /\ IdleDetails
    /\ IdleSession
    /\ IdleScroll
    /\ site = NoSite
    /\ IdleProgressive
    /\ IdleMain

Next ==
    \/ SessionNext
    \/ ExtractNext
    \/ UrlParamPagination
    \/ ButtonPagination
    \/ ScrollNext

Spec == Init /\ [][Next]_vars

-----------------------------------------------------------------------------
(* normalize_company_config: a configuration is a function from its keys *)

MaxPagesFallback == 2

MaxJobsPerCompany == 3

Get(c, k, d) == IF k \in DOMAIN c THEN c[k] ELSE d

Put(c, k, v) == [x \in DOMAIN c \cup {k} |-> IF x = k THEN v ELSE c[x]]

PutIfMissing(c, k, v) == IF k \in DOMAIN c THEN c ELSE Put(c, k, v)

field_mapping ==
    << <<"job_card", "card_selector">>, <<"title", "title_selector">>,
       <<"location", "location_selector">>, <<"link", "link_selector">>,
       <<"posted", "posted_selector">>, <<"description", "description_selector">>,
       <<"metadata", "metadata_selector">>, <<"company", "company_name">> >>

\* if old_name in config and new_name not in config: config[new] = config[old]
RECURSIVE ApplyFieldMapping(_, _)
ApplyFieldMapping(c, n) ==
    IF n > Len(field_mapping) THEN c
    ELSE LET old_name == field_mapping[n][1]
             new_name == field_mapping[n][2]
         IN  ApplyFieldMapping(
                 IF old_name \in DOMAIN c /\ new_name \notin DOMAIN c
                 THEN Put(c, new_name, c[old_name]) ELSE c,
                 n + 1)

\* the special_case flag and, under it, the defaults for crawl_ex
SpecialDefaults(c) ==
    LET flagged == Put(c, "special_case", Get(c, "special_case", FALSE))
    IN  IF flagged["special_case"]
        THEN PutIfMissing(
                 PutIfMissing(
                     PutIfMissing(flagged, "click_target",
                                  Get(flagged, "title_selector", ".title")),
                     "detail_container", ".position-container"),
                 "pagination_type", "Load_more")
        ELSE flagged

\* the defaults dictionary, its values taken from the configuration c
Defaults(c) ==
    << <<"card_selector", Get(c, "job_card", "")>>,
       <<"title_selector", Get(c, "title", "")>>,
       <<"location_selector", Get(c, "location", "")>>,
       <<"posted_selector", Get(c, "posted", "")>>,
       <<"description_selector", Get(c, "description", "")>>,
       <<"link_selector", Get(c, "link", "")>>,
       <<"metadata_selector", Get(c, "metadata", "")>>,
       <<"pagination_selector", Get(c, "pagination_selector", "")>>,
       <<"max_pages", Get(c, "max_pages", MaxPagesFallback)>>,
       <<"scroll_pause", 2>>,
       <<"max_jobs", MaxJobsPerCompany>>,
       <<"headless", TRUE>> >>

\* if key not in config: config[key] = value
RECURSIVE ApplyDefaults(_, _, _)
ApplyDefaults(c, defaults, n) ==
    IF n > Len(defaults) THEN c
    ELSE ApplyDefaults(PutIfMissing(c, defaults[n][1], defaults[n][2]),
                       defaults, n + 1)

\* cookie_handling is made a boolean when the input gives it
CookieHandling(c, company_config) ==
    IF "cookie_handling" \in DOMAIN company_config
    THEN Put(c, "cookie_handling", company_config["cookie_handling"] = TRUE)
    ELSE c

\* use_metadata_parsing, when not given, is bool(metadata_selector)
MetadataParsing(c) ==
    PutIfMissing(c, "use_metadata_parsing", Get(c, "metadata_selector", "") # "")

PaginationAliasNoScroll(c) ==
    LET t == Get(c, "pagination_type", "")
    IN  IF t = "one_page"
        THEN Put(Put(c, "pagination_type", "none"), "max_pages", 1)
        ELSE IF t = "button" THEN Put(c, "pagination_type", "button_click")
        ELSE c

\* one_page -> none with max_pages 1, button -> button_click,
\* scroll -> infinite_scroll
PaginationAlias(c) ==
    LET t == Get(c, "pagination_type", "")
    IN  IF t = "one_page"
        THEN Put(Put(c, "pagination_type", "none"), "max_pages", 1)
        ELSE IF t = "button" THEN Put(c, "pagination_type", "button_click")
        ELSE IF t = "scroll" THEN Put(c, "pagination_type", "infinite_scroll")
        ELSE c

normalize_company_config(company_config) ==
    LET mapped == ApplyFieldMapping(company_config, 1)
        special == SpecialDefaults(mapped)
        filled == ApplyDefaults(special, Defaults(special), 1)
        cookies == CookieHandling(filled, company_config)
        parsing == MetadataParsing(cookies)
    IN  PaginationAlias(parsing)

\* the raw configurations: every key is given or left out
Optional(k, values) == {<<>>} \cup {(k :> v) : v \in values}

RECURSIVE Merge(_)
Merge(parts) ==
    IF parts = <<>> THEN {<<>>}
    ELSE {p @@ rest : p \in Head(parts), rest \in Merge(Tail(parts))}

RawConfigs ==
    Merge(<< Optional("job_card", {"", "a"}),
             Optional("card_selector", {"b"}),
             Optional("metadata", {"m"}),
             Optional("use_metadata_parsing", {TRUE, FALSE}),
             Optional("pagination_type",
                      {"one_page", "button", "scroll", "none", "url_param"}),
             Optional("max_pages", {2}),
             Optional("special_case", {TRUE}),
             Optional("cookie_handling", {TRUE, FALSE}) >>)

\* normalize_company_config(company_config), called on its own
NormalizeCall ==
    /\ pc = "n_call"
    /\ config' = normalize_company_config(companies_config[1])
    /\ pc' = "n_done"
    /\ UNCHANGED <<progVars, mainVars, metaVars, detailVars, sessionVars, scrollVars, handlerLogs,
                   extractVars, faults, page, ret>>

InitNormalize ==
    /\ config = BaseConfig
    /\ faults = {}
    /\ page = [url |-> U_plain, cards |-> 0, alive |-> TRUE]
    /\ growK = 0
    /\ pc = "n_call"
    /\ ret = "none"
    /\ all_jobs = <<>>
    /\ IdleExtract
    /\ IdleMetadata
    /\ IdleDetails
    /\ IdleSession
    /\ IdleScroll
    /\ site = NoSite
    /\ IdleProgressive
    /\ companies_config \in {<<c>> : c \in RawConfigs}
    /\ ci = 0
    /\ all_results = <<>>
    /\ output = NoOutput

SpecNormalize == InitNormalize /\ [][NormalizeCall]_vars

-----------------------------------------------------------------------------
(* main: one session per company on the one page, then the saved file *)

MaxCompanies == 2

\* how the controller reads a normalized configuration
ControllerConfig(n) ==
    [pagination_type |-> n["pagination_type"],
     max_pages |-> n["max_pages"],
     max_jobs |-> n["max_jobs"],
     title_selector |-> n["title_selector"] # "",
     location_selector |-> n["location_selector"] # "",
     posted_selector |-> n["posted_selector"] # "",
     description_selector |-> n["description_selector"] # "",
     link_selector |-> n["link_selector"] # "",
     metadata_selector |-> n["metadata_selector"] # "",
     use_metadata_parsing |-> n["use_metadata_parsing"],
     pagination_selector |-> n["pagination_selector"] # "",
     url |-> n["url"],
     pagination_param |-> P_page,
     pagination_step |-> 1]

\* company_name as scrape_single_company and main's except clause read it
CompanyName(c) == Get(c, "company_name", Get(c, "company", "Unknown"))

\* the keys print_company_config reads with config[...]
PrintedKeys == {"url", "max_jobs", "pagination_type", "card_selector",
                "title_selector", "link_selector"}

\* the result main's except clause appends
FailedResult(company_config) ==
    [company_name |-> Get(company_config, "company", "Unknown"),
     has_url |-> "url" \in DOMAIN company_config,
     status |-> "failed", pages_scraped |-> 0, jobs |-> <<>>,
     errors |-> <<"KeyError">>]

\* for i, company_config in enumerate(companies_config): normalize, then
\* scrape_single_company up to its try block
MainLoop ==
    /\ pc = "m_loop"
    /\ IF ci < Len(companies_config)
       THEN LET company_config == companies_config[ci + 1]
                normalized_config == normalize_company_config(company_config)
            IN  /\ ci' = ci + 1
                /\ IF PrintedKeys \subseteq DOMAIN normalized_config
                   THEN /\ config' = ControllerConfig(normalized_config)
                        /\ pc' = "s_nav"
                        /\ UNCHANGED all_results
                   ELSE /\ all_results' = Append(all_results,
                                                 FailedResult(company_config))
                        /\ pc' = "m_loop"
                        /\ UNCHANGED config
       ELSE /\ pc' = "m_save"
            /\ UNCHANGED <<ci, all_results, config>>
    /\ errors' = <<>>
    /\ result' = NoResult
    /\ slog' = NoSlog
    /\ current_page' = 0
    /\ overall_stats' = ZeroStats
    /\ pagination_success' = "none"
    /\ all_jobs' = <<>>
    /\ existing_jobs' = <<>>
    /\ jobs' = <<>>
    /\ stats' = ZeroStats
    /\ job_cards' = 0
    /\ i' = 0
    /\ browser_closed' = FALSE
    /\ job_data' = NoJobData
    /\ page_stats' = ZeroStats
    /\ xlog' = NoLog
    /\ UNCHANGED <<progVars, metaVars, detailVars, scrollVars, handlerLogs, faults, page, ret,
                   companies_config, output>>

\* result = scrape_single_company(...); all_results.append(result)
MainCollect ==
    /\ pc = "s_done"
    /\ all_results' = Append(all_results,
           [company_name |-> CompanyName(companies_config[ci]),
            has_url |-> TRUE,
            status |-> result.status,
            pages_scraped |-> result.pages_scraped,
            jobs |-> result.jobs,
            errors |-> errors])
    /\ pc' = "m_loop"
    /\ UNCHANGED <<progVars, metaVars, detailVars, sessionVars, scrollVars, handlerLogs, extractVars,
                   envVars, ret, companies_config, ci, output>>

\* the position of the last result of a company: later entries of
\* output["companies"] replace earlier ones of the same name
LastOf(results, name) ==
    CHOOSE k \in 1..Len(results) :
        /\ results[k].company_name = name
        /\ \A later \in (k + 1)..Len(results) : results[later].company_name # name

HasGeminiError(job) == job.by = "fallback"

\* the jobs written for a company: those without a gemini_error key
CleanJobs(jobs_of_result) ==
    SelectSeq(jobs_of_result, LAMBDA job : ~HasGeminiError(job))

save_multi_company_results(results) ==
    IF \E k \in 1..Len(results) : ~results[k].has_url
    THEN NoOutput
    ELSE [saved |-> TRUE,
          companies |->
             [name \in {results[k].company_name : k \in 1..Len(results)} |->
                LET r == results[LastOf(results, name)]
                IN  [status |-> r.status,
                     jobs |-> CleanJobs(r.jobs),
                     total_jobs_found |-> Len(r.jobs),
                     successful_jobs |-> Len(CleanJobs(r.jobs)),
                     failed_jobs |-> Len(r.jobs) - Len(CleanJobs(r.jobs)),
                     errors |-> r.errors]]]

\* after the loop: save_multi_company_results(all_results, ...)
SaveResults ==
    /\ pc = "m_save"
    /\ output' = save_multi_company_results(all_results)
    /\ pc' = "m_done"
    /\ UNCHANGED <<progVars, metaVars, detailVars, sessionVars, scrollVars, handlerLogs, extractVars,
                   envVars, ret, companies_config, ci, all_results>>

MainNext ==
    \/ MainLoop
    \/ Navigate
    \/ WaitForCards
    \/ PageLoopHead
    \/ PageLoopExtract
    \/ ExtractNext
    \/ AfterExtract
    \/ Finish
    \/ MainCollect
    \/ SaveResults

\* a company of the list: its name, and the keys it leaves out
Company(name, left_out) ==
    [k \in {"company", "url", "job_card", "title", "link", "pagination_type"}
           \ left_out |->
        IF k = "company" THEN name
        ELSE IF k = "url" THEN U_plain
        ELSE IF k = "pagination_type" THEN "one_page"
        ELSE "a"]

MainCompanies ==
    {Company("A", {}), Company("B", {}), Company("B", {"pagination_type"}),
     Company("C", {"url"})}

MainFaults == {{"closed"}, {"gemini"}, {"nav", "error"}}

InitMain ==
    /\ companies_config \in [1..MaxCompanies -> MainCompanies]
    /\ ci = 0
    /\ all_results = <<>>
    /\ output = NoOutput
    /\ config = BaseConfig
    /\ faults \in MainFaults
    /\ page \in [url : {<<>>}, cards : 1..MaxCards, alive : {TRUE}]
    /\ growK = 0
    /\ pc = "m_loop"
    /\ ret = "none"
    /\ all_jobs = <<>>
    /\ IdleExtract
    /\ IdleMetadata
    /\ IdleDetails
    /\ IdleSession
    /\ IdleScroll
    /\ site = NoSite
    /\ IdleProgressive

SpecMain == InitMain /\ [][MainNext]_vars

MaxCookieCards == 21

MaxCookieJobs == 50

\* scrape_single_company on listings long enough for the cookie banners to be
\* re-checked, with one page or with a next-page button
CookieNext ==
    \/ Navigate
    \/ WaitForCards
    \/ PageLoopHead
    \/ PageLoopExtract
    \/ ExtractNext
    \/ AfterExtract
    \/ ButtonPagination
    \/ AfterAdvance
    \/ Finish

InitCookies ==
    /\ config \in {[LeanConfig EXCEPT !.pagination_type = t, !.max_pages = mp,
                                     !.max_jobs = MaxCookieJobs,
                                     !.pagination_selector = TRUE] :
                       t \in {"none", "button_click"}, mp \in {1, 2}}
    /\ faults \in {{}, {"cookie"}, {"cookie", "closed"}}
    /\ page \in [url : {<<>>}, cards : {0, 9, 11, MaxCookieCards}, alive : {TRUE}]
    /\ growK = 0
    /\ pc = "s_nav"
    /\ ret = "none"
    /\ all_jobs = <<>>
    /\ IdleExtract
    /\ IdleMetadata
    /\ IdleDetails
    /\ IdleSession
    /\ IdleScroll
    /\ site = NoSite
    /\ IdleProgressive
    /\ IdleMain

SpecCookies == InitCookies /\ [][CookieNext]_vars

\* extract_job_data(page, config, existing_jobs), called on its own
InitExtract ==
    /\ config \in ExtractConfigs
    /\ faults \in {{"absent", "error", "closed", "dup"},
                   {"closed", "crawl", "gemini", "store"},
                   {"absent", "error", "populated"},
                   {"error", "gemini", "rewrite"},
                   {"badhref", "dup"}}
    /\ page \in [url : {U_plain}, cards : 0..MaxCards, alive : {TRUE}]
    /\ growK = 0
    /\ pc = "x_entry"
    /\ ret = "returned"
    /\ all_jobs \in {<<>>, <<PriorJob>>}
    /\ IdleExtract
    /\ IdleMetadata
    /\ IdleDetails
    /\ IdleSession
    /\ IdleScroll
    /\ site = NoSite
    /\ IdleProgressive
    /\ IdleMain

SpecExtract == InitExtract /\ [][ExtractNext]_vars

MaxCalls == 2

MaxRows == 2

\* the links and store outcomes a caller of check_apply_link_exists can meet
StoreLinks == {"unset", "", "N/A", "url"}

AllLookups == {NoConnection, QueryRaises} \cup {Rows(n) : n \in 0..MaxRows}

\* check_apply_link_exists(apply_link), called on its own
CheckApplyLink ==
    /\ pc = "st_call"
    /\ Len(xlog.calls) < MaxCalls
    /\ \E apply_link \in StoreLinks, lookup \in AllLookups :
          xlog' = [xlog EXCEPT !.calls = Append(@,
                      [apply_link |-> apply_link,
                       lookup |-> lookup,
                       access |-> StoreAccess(apply_link, lookup),
                       exists |-> check_apply_link_exists(apply_link, lookup)])]
    /\ UNCHANGED <<progVars, mainVars, metaVars, detailVars, sessionVars, scrollVars, handlerLogs, envVars>>
    /\ UNCHANGED <<pc, ret, existing_jobs, jobs, stats, job_cards, i,
                   browser_closed, job_data, all_jobs, page_stats>>

InitStore ==
    /\ config = BaseConfig
    /\ faults = {}
    /\ page = [url |-> U_plain, cards |-> 0, alive |-> TRUE]
    /\ growK = 0
    /\ pc = "st_call"
    /\ ret = "returned"
    /\ all_jobs = <<>>
    /\ IdleExtract
    /\ IdleMetadata
    /\ IdleDetails
    /\ IdleSession
    /\ IdleScroll
    /\ site = NoSite
    /\ IdleProgressive
    /\ IdleMain

SpecStore == InitStore /\ [][CheckApplyLink]_vars

MaxGrowK == 21

\* handle_infinite_scroll(page, config, 0), called on its own
InitScroll ==
    /\ config = [BaseConfig EXCEPT !.pagination_type = "infinite_scroll"]
    /\ faults \in {{}, {"error"}}
    /\ page \in [url : {U_plain}, cards : 0..MaxCards, alive : {TRUE}]
    /\ growK \in -1..MaxGrowK
    /\ pc = "sc_entry"
    /\ ret = "returned"
    /\ all_jobs = <<>>
    /\ IdleExtract
    /\ IdleMetadata
    /\ IdleDetails
    /\ IdleSession
    /\ IdleScroll
    /\ site = NoSite
    /\ IdleProgressive
    /\ IdleMain

SpecScroll == InitScroll /\ [][ScrollNext]_vars

MaxLongSite == 53

MaxShortSite == 12

CardKinds == {"no_target", "modal", "back_slow", "back_fails", "lost", "error"}

OddCards ==
    {{}} \cup {{<<k, kind>>} : k \in {0, 1, 10}, kind \in CardKinds}
         \cup {{<<0, a>>, <<1, b>>} : a \in CardKinds, b \in CardKinds}
         \cup {{<<k, "no_target">> : k \in 0..(batch_size - 1)}}

\* the listings the progressive run is tried on: a long one whose load-more
\* control always yields one more card, and short ones with odd cards
Sites ==
    {[total |-> MaxLongSite, first |-> 1, step |-> 1, odd |-> {},
      button_when_done |-> "absent"]}
    \cup
    [total : {0, 2, 11, MaxShortSite}, first : {0, 1, 11}, step : {1, 10},
     odd : OddCards,
     button_when_done : {"absent", "hidden", "disabled_true", "disabled_bare",
                         "enabled"}]

\* scrape_jobs with pagination_type Load_more
InitProgressive ==
    /\ config = [BaseConfig EXCEPT !.pagination_type = "Load_more"]
    /\ faults = {}
    /\ site \in {st \in Sites : st.first <= st.total}
    /\ page = [url |-> U_plain, cards |-> site.first, alive |-> TRUE]
    /\ growK = 0
    /\ pc = "pl_top"
    /\ ret = "returned"
    /\ all_jobs = <<>>
    /\ IdleExtract
    /\ IdleMetadata
    /\ IdleDetails
    /\ IdleSession
    /\ IdleScroll
    /\ IdleProgressive
    /\ IdleMain

SpecProgressive == InitProgressive /\ [][ProgressiveNext]_vars

\* the same run, which takes its next step as long as it has one
FairProgressive == SpecProgressive /\ WF_vars(ProgressiveNext)

\* the listings a special-case session is tried on
SpecialSites ==
    [total : {0, 2, 3}, first : {0, 1, 2}, step : {1},
     odd : {{}} \cup {{<<k, kind>>} : k \in {0, 1}, kind \in CardKinds},
     button_when_done : {"absent", "hidden", "disabled_true", "disabled_bare",
                         "enabled"}]

\* scrape_special_case_company(config, ...)
InitSpecial ==
    /\ config \in {[BaseConfig EXCEPT !.pagination_type = t] :
                      t \in {"Load_more", "button_click", "none"}}
    /\ faults \in {{}, {"closed"}, {"dup"}, {"nav"}, {"slow"}}
    /\ site \in {st \in SpecialSites : st.first <= st.total}
    /\ page = [url |-> <<>>, cards |-> 0, alive |-> TRUE]
    /\ growK = 0
    /\ pc = "sj_goto"
    /\ ret = "returned"
    /\ all_jobs = <<>>
    /\ IdleExtract
    /\ IdleMetadata
    /\ IdleDetails
    /\ IdleSession
    /\ IdleScroll
    /\ IdleProgressive
    /\ IdleMain

SpecSpecial == InitSpecial /\ [][SpecialNext]_vars

-----------------------------------------------------------------------------
(* Query strings, for the statements about rewritten URLs *)

RECURSIVE IndexOf(_, _, _)
\* first position at or after k where s holds c, or 0
IndexOf(s, c, k) ==
    IF k > Len(s) THEN 0
    ELSE IF s[k] = c THEN k
    ELSE IndexOf(s, c, k + 1)

PathOf(url) ==
    LET q == IndexOf(url, "?", 1)
    IN  IF q = 0 THEN url ELSE SubSeq(url, 1, q - 1)

QueryString(url) ==
    LET q == IndexOf(url, "?", 1)
    IN  IF q = 0 THEN <<>> ELSE SubSeq(url, q + 1, Len(url))

RECURSIVE SplitOn(_, _)
SplitOn(s, c) ==
    LET k == IndexOf(s, c, 1)
    IN  IF s = <<>> THEN <<>>
        ELSE IF k = 0 THEN <<s>>
        ELSE <<SubSeq(s, 1, k - 1)>> \o SplitOn(SubSeq(s, k + 1, Len(s)), c)

NameValue(piece) ==
    LET k == IndexOf(piece, "=", 1)
    IN  IF k = 0
        THEN [name |-> piece, value |-> <<>>]
        ELSE [name |-> SubSeq(piece, 1, k - 1),
              value |-> SubSeq(piece, k + 1, Len(piece))]

QueryParams(url) ==
    LET pieces == SplitOn(QueryString(url), "&")
    IN  [k \in 1..Len(pieces) |-> NameValue(pieces[k])]

\* new is old with parameter `param` set to `value`: rewritten where it stands,
\* or appended, and nothing else touched
IsParamUpdate(old, new, param, value) ==
    LET before == QueryParams(old)
        after == QueryParams(new)
        target == [name |-> param, value |-> value]
    IN  /\ PathOf(new) = PathOf(old)
        /\ IF \E k \in 1..Len(before) : before[k].name = param
           THEN after = [k \in 1..Len(before) |->
                            IF before[k].name = param THEN target ELSE before[k]]
           ELSE after = before \o <<target>>

-----------------------------------------------------------------------------
(* Properties *)

FieldNames ==
    {"title", "metadata", "location", "posted_date", "description", "apply_link"}

InCardLoop ==
    pc \in {"x_loop", "x_live", "x_title", "x_meta", "x_location", "x_posted",
            "x_description", "x_link", "x_dedup", "x_enrich"}

\* C1: when a field read of card i raises a session-termination error, the
\* card loop stops at once, no record is appended for card i or a later card,
\* and the returned list is existing_jobs followed by every record appended
\* for the cards before i.
C1_TerminationStopsCardLoop ==
    xlog.closedWhere \in FieldNames =>
        /\ ~InCardLoop
        /\ i = xlog.closedAt
        /\ jobs = existing_jobs \o xlog.emitted
        /\ \A k \in 1..Len(xlog.emitted) : xlog.emitted[k].src[2] < xlog.closedAt
        /\ (pc = "returned" => all_jobs = jobs)

C1_Witness ==
    /\ pc = "returned"
    /\ xlog.closedWhere \in FieldNames
    /\ xlog.closedAt >= 1
    /\ existing_jobs # <<>>
    /\ xlog.emitted # <<>>
    /\ Len(all_jobs) = Len(existing_jobs) + Len(xlog.emitted)

\* C2: whenever the card loop is aborted on a detected session termination
\* (page-alive check or a field read), the returned statistics have
\* browser_closed_early = TRUE, and so have the session's after aggregate_stats.
C2_ClosureSetsFlag ==
    /\ (pc = "x_return" /\ xlog.closedWhere # "none") => stats.browser_closed_early
    /\ slog.closure_detected => overall_stats.browser_closed_early

\* C3 as stated: on a page that grows on the first k scrolls only, exactly
\* k + 3 scrolls are made, and never more than 20.
C3_ExactlyKPlus3 ==
    /\ (pc = "returned" /\ ~scroll_raised /\ growK >= 0) => total_scrolls = growK + 3
    /\ total_scrolls <= 20

\* C3 amended: on a page that grows on the first k scrolls only, a call in
\* which no browser call raises makes exactly min(k + 3, 20) scrolls; and in
\* every run, whatever the page does, never more than 20.
C3_ExactlyMinKPlus3Or20 ==
    /\ (pc = "returned" /\ ~scroll_raised /\ growK >= 0)
           => total_scrolls = Min(growK + 3, 20)
    /\ total_scrolls <= 20

C3_Witness ==
    /\ pc = "returned"
    /\ ~scroll_raised
    /\ growK = 18
    /\ total_scrolls = 20
    /\ consecutive_no_load = 2

\* C4: handle_button_pagination returns False without clicking and without
\* raising whenever the located button carries a disabled attribute, whatever
\* its value (the empty value of a bare attribute included).
C4_DisabledAttributeHalts ==
    (blog.called /\ blog.found /\ blog.button.disabled.present) =>
        /\ blog.result = "False"
        /\ ~blog.click_attempted
        /\ pagination_success # "raised"

\* C5: with button_click the session makes at most max_pages extraction
\* passes and at most max_pages - 1 advances, no extraction pass follows an
\* advance that returned False, and the loop is over once an advance has
\* returned False or max_pages pages are counted.
C5_ButtonClickBounds ==
    config.pagination_type = "button_click" =>
        /\ slog.passes <= config.max_pages
        /\ slog.advances <= config.max_pages - 1
        /\ ~slog.pass_after_failed_advance
        /\ (slog.advance_failed => pc \in {"s_finish", "s_done"})
        /\ (current_page >= config.max_pages => pc \in {"s_finish", "s_done"})

C5_Witness ==
    /\ config.pagination_type = "button_click"
    /\ pc = "s_done"
    /\ config.max_pages = 3
    /\ slog.passes = 3
    /\ slog.advances = 2
    /\ ~slog.advance_failed

\* C6 as stated: with pagination type none a session makes exactly one
\* extraction pass and no advance.
C6_ExactlyOnePass ==
    (config.pagination_type = "none" /\ pc = "s_done") =>
        /\ slog.passes = 1
        /\ slog.advances = 0

\* C6 amended: with pagination type none a session never invokes an advance
\* and makes at most one extraction pass, whatever max_pages (>= 1) is; it
\* makes exactly one when the initial navigation succeeded, max_jobs >= 1 and
\* the page-alive probe at the loop head did not raise.
C6_AtMostOnePass ==
    config.pagination_type = "none" =>
        /\ slog.advances = 0
        /\ blog = NoBlog /\ ulog = NoUlog /\ scroll_result = "none"
        /\ slog.passes <= 1
        /\ (pc = "s_done" /\ result.status # "failed" /\ config.max_jobs >= 1
               /\ ~slog.probe_raised) => slog.passes = 1

C6_Witness ==
    /\ config.pagination_type = "none"
    /\ config.max_pages = 3
    /\ pc = "s_done"
    /\ slog.passes = 1
    /\ current_page = 1
    /\ Len(all_jobs) < config.max_jobs

\* C7: handle_url_param_pagination returns False exactly when the navigation
\* raised or no card is found after it, True whenever at least one card is
\* found, and never raises.
C7_UrlParamResult ==
    ulog.called =>
        /\ ulog.result \in {"True", "False"}
        /\ pagination_success = ulog.result
        /\ (ulog.result = "False") <=> (ulog.raised # "none" \/ ulog.jobs_found = 0)
        /\ (ulog.result = "True") <=> (ulog.raised = "none" /\ ulog.jobs_found >= 1)

C7_Witness ==
    /\ ulog.called
    /\ ulog.raised = "goto"
    /\ ulog.result = "False"
    /\ pc = "s_done"
    /\ errors = <<>>

\* C8: the next value is p + 1 for page, p and unrecognised names, and
\* (p - 1) * s + s for startrow and jobOffset; startrow, s = 25, p = 2 gives 50.
C8_NextValue ==
    ulog.called =>
        LET p == ulog.page_number
            s == config.pagination_step
            offset == config.pagination_param \in {P_startrow, P_jobOffset}
        IN  /\ ulog.next_value = IF offset THEN (p - 1) * s + s ELSE p + 1
            /\ (config.pagination_param = P_startrow /\ s = 25 /\ p = 2)
                   => ulog.next_value = 50

C8_Witness ==
    /\ ulog.called
    /\ config.pagination_param = P_startrow
    /\ config.pagination_step = 25
    /\ ulog.page_number = 2
    /\ ulog.next_value = 50

\* C9: the URL navigated to carries the pagination parameter with the next
\* value, rewritten in place if the current URL has it and appended otherwise,
\* and no other query parameter is changed.
C9_OnlyThePaginationParamChanges ==
    (ulog.called /\ ulog.navigated) =>
        IsParamUpdate(ulog.current_url, ulog.new_url, config.pagination_param,
                      IntToStr(ulog.next_value))

\* C10: progressive load-more processing makes at most 50 load-more attempts
\* in one session, even if every click keeps yielding new cards.
C10_AtMost50LoadAttempts ==
    /\ plog.load_attempts <= 50
    /\ plog.load_clicks <= 50

ProgressiveOver == pc \in {"pl_done", "sj_except"}

\* C11: progressive load-more processing terminates: on every finite page and
\* for every pattern of per-card failures the loop reaches its end; no card
\* or batch is retried without bound.
C11_ProgressiveTerminates == <>ProgressiveOver

C13_HandlesResolvedAnew == ~plog.stale_read

SkippedCardBlocks ==
    \E k \in plog.skipped : k + 1 < page.cards /\ (k + 1) \notin plog.visited

\* C14: a card none of whose click targets is clicked emits no record and is
\* not counted, and processing advances to the cards after it.
C14_UnclickableCardIsPassedOver ==
    /\ [](\A k \in plog.skipped :
             \A r \in 1..Len(self_job_data) : self_job_data[r].card # k)
    /\ [](total_processed = Len(self_job_data))
    /\ (SkippedCardBlocks ~> ~SkippedCardBlocks)

\* C15: when the listing cannot be restored after a detail extraction the card
\* loop in hand is aborted, the session still finalizes with what it
\* collected, and the failure is recorded as a navigation error.
C15_LostListingIsRecorded ==
    /\ ~plog.after_lost
    /\ (pc = "sp_done" /\ plog.lost_at >= 0) =>
          /\ special_result.status = "completed"
          /\ ("dup" \notin faults => special_result.jobs = self_job_data)
          /\ special_result.errors # <<>>

\* C16: when the browser, context or page is closed during a special-case
\* session, the session ends and returns the records it had collected before
\* the closure.
C16_ClosureKeepsCollected ==
    (pc = "sp_done" /\ plog.closed_with >= 0) =>
        /\ Len(sj_result) >= plog.closed_with
        /\ SubSeq(sj_result, 1, plog.closed_with)
              = SubSeq(self_job_data, 1, plog.closed_with)
        /\ ("dup" \notin faults => special_result.jobs = sj_result)


\* C17: in extract_job_data the store is asked about a card only once its
\* apply link is resolved, and before the card is crawled or handed to Gemini;
\* a card reported present is not crawled, not handed to Gemini, adds no record,
\* and adds exactly one to skipped_duplicates
C17_DuplicateSkippedBeforeEnrichment ==
    /\ (pc = "x_dedup" => job_data.apply_link # "unset")
    /\ xlog.fetched \cup xlog.normalized \subseteq xlog.checked \ xlog.dups
    /\ \A r \in 1..Len(xlog.emitted) : xlog.emitted[r].src[2] \notin xlog.dups
    /\ stats.skipped_duplicates = Cardinality(xlog.dups)
    /\ Len(jobs) = Len(existing_jobs) + Cardinality(xlog.checked \ xlog.dups)
                      - (IF pc = "x_enrich" THEN 1 ELSE 0)

C17_Witness ==
    /\ pc = "returned"
    /\ xlog.dups = {0}
    /\ xlog.fetched = {1}
    /\ xlog.normalized = {1}
    /\ stats.skipped_duplicates = 1
    /\ Len(xlog.emitted) = 1


\* C18: check_apply_link_exists answers true only for a link that is non-empty
\* and not "N/A" whose lookup succeeds with at least one row; an empty or "N/A"
\* link is answered false without the store being touched; an unreachable
\* store or a raising lookup is answered false
C18_ExistsOnlyForStoredLink ==
    \A c \in 1..Len(xlog.calls) :
        LET call == xlog.calls[c]
            noLink == call.apply_link \in {"unset", "", "N/A"}
        IN  /\ call.exists <=>
                  (~noLink /\ call.lookup.kind = "rows" /\ call.lookup.n >= 1)
            /\ (noLink => call.access = "untouched" /\ ~call.exists)
            /\ (call.lookup.kind \in {"unavailable", "error"} => ~call.exists)

C18_Witness ==
    /\ Len(xlog.calls) = 2
    /\ xlog.calls[1].apply_link = "url" /\ xlog.calls[1].lookup = Rows(2)
    /\ xlog.calls[1].exists /\ xlog.calls[1].access = "queried"
    /\ xlog.calls[2].apply_link = "" /\ xlog.calls[2].lookup = Rows(1)
    /\ ~xlog.calls[2].exists


\* C19: a run of extract_job_data on a page whose every apply link is already
\* in the store accepts nothing: no record is appended and
\* successful_extractions stays 0
C19_RerunAcceptsNothing ==
    "populated" \in faults =>
        /\ xlog.emitted = <<>>
        /\ jobs = existing_jobs
        /\ stats.successful_extractions = 0

\* C19 (amended): such a run accepts no card whose apply link resolved; the
\* cards it accepts are exactly those whose apply link is the sentinel
C19_RerunAcceptsOnlyUnlinkedCards ==
    "populated" \in faults =>
        /\ \A r \in 1..Len(xlog.emitted) : xlog.emitted[r].apply_link = "N/A"
        /\ xlog.fetched = {}
        /\ jobs = existing_jobs \o xlog.emitted
        /\ stats.successful_extractions = Len(xlog.emitted)
        /\ stats.successful_extractions + stats.skipped_duplicates
              = Cardinality(xlog.checked) - (IF pc = "x_enrich" THEN 1 ELSE 0)

C19_Witness ==
    /\ "populated" \in faults
    /\ pc = "returned"
    /\ page.cards = 2
    /\ stats.skipped_duplicates = 2
    /\ xlog.emitted = <<>>
    /\ stats.successful_extractions = 0


CardSteps ==
    {"x_live", "x_title", "x_meta", "x_location", "x_posted", "x_description",
     "x_link", "x_dedup", "x_enrich"}

CardFields == {"title", "location", "posted_date", "description", "apply_link"}

FailedReads == {"no_selector", "absent", "error"}

\* a card whose five field reads are over
FieldsDone == pc \in {"x_dedup", "x_enrich"}

\* C20: in extract_job_data a field whose selector is empty, whose element is
\* not found or whose read raises an error other than a closure has the value
\* "N/A" in the card's record, and the card's other fields are still read
C20_FailedFieldIsSentinel ==
    /\ \A f \in CardFields :
          xlog.reads[f] \in FailedReads => job_data[f] = "N/A"
    /\ (~config.link_selector /\ xlog.reads.apply_link \notin {"unread", "closed"})
          => job_data.apply_link = "N/A"
    /\ FieldsDone => \A f \in CardFields :
                        xlog.reads[f] # "unread" /\ job_data[f] # "unset"

\* C20 (amended): as C20 for title, location, posted date and description; the
\* apply link is "N/A" when no href is obtained, and with an empty link
\* selector the href is read from the card itself
C20_FailedFieldIsSentinelButCardHref ==
    /\ \A f \in CardFields :
          xlog.reads[f] \in FailedReads => job_data[f] = "N/A"
    /\ xlog.reads.apply_link = "ok" => job_data.apply_link = "url"
    /\ FieldsDone => \A f \in CardFields :
                        xlog.reads[f] # "unread" /\ job_data[f] # "unset"

C20_Witness ==
    /\ pc = "x_dedup"
    /\ ~config.link_selector
    /\ xlog.reads = [title |-> "no_selector", location |-> "error",
                     posted_date |-> "no_selector", description |-> "no_selector",
                     apply_link |-> "ok"]
    /\ job_data = [title |-> "N/A", location |-> "N/A", posted_date |-> "N/A",
                   description |-> "N/A", apply_link |-> "url"]


\* the step in which extract_job_data leaves card i for the next card
CardLeft == pc \in CardSteps /\ pc' = "x_loop"

\* the last record of jobs after the step
Appended == jobs'[Len(jobs')]

AppendsOne == pc = "x_enrich" /\ Len(jobs') = Len(jobs) + 1 /\ Appended.src = <<xlog.pass, i>>

LostFromOutput(k) ==
    LET r == all_results[k]
        saved_jobs == output.companies[r.company_name].jobs
    IN  {j \in 1..Len(r.jobs) :
            \A o \in 1..Len(saved_jobs) : saved_jobs[o] # r.jobs[j]}

\* C22: a card whose normalization failed is appended to the session's jobs
\* as a record of its raw fields, and that record is among the jobs of the
\* company in the saved output
C22_FallbackRecordKeptInOutput ==
    /\ \A r \in 1..Len(xlog.emitted) :
          xlog.emitted[r].by = "fallback" =>
              \E j \in 1..Len(jobs) : jobs[j] = xlog.emitted[r]
    /\ (pc = "m_done" /\ output.saved) =>
          \A k \in 1..Len(all_results) :
              k = LastOf(all_results, all_results[k].company_name)
                  => LostFromOutput(k) = {}


\* the sessions that have returned so far: one per configuration already
\* taken from the list, except the one still running
SessionsReturned == IF pc \in {"m_loop", "m_save", "m_done"} THEN ci ELSE ci - 1

\* all_results holds one result per configuration already processed, in the
\* order of the list
ResultsInOrder ==
    /\ Len(all_results) = SessionsReturned
    /\ \A k \in 1..Len(all_results) :
          all_results[k].company_name = CompanyName(companies_config[k])

\* C23: a list of site configurations yields exactly one session result per
\* configuration, in the order of the list, and a session that ended on a
\* closed browser (or any other failure) leaves the following session a
\* browser page it can run on
C23_OneResultEachAndFailureIsLocal ==
    /\ ResultsInOrder
    /\ pc = "s_nav" => page.alive


\* C24: when the budget of a special-case session expires the caller has
\* its result without waiting for the worker, and the records it reports are
\* the ones the worker had collected
C24_BudgetExpiryAbandonsWorker ==
    /\ future = "timeout" => pc = "sp_done"
    /\ (future = "timeout" /\ pc = "sp_done") =>
          special_result.jobs = self_job_data


\* the configuration normalize_company_config was called with
RawConfig == companies_config[1]

\* the canonical name of a pagination_type
AliasOf(t) ==
    CASE t = "one_page" -> "none"
      [] t = "button" -> "button_click"
      [] t = "scroll" -> "infinite_scroll"
      [] OTHER -> t

\* the pagination_type of the result is the canonical name of the input's
AliasesMapped ==
    "pagination_type" \in DOMAIN RawConfig =>
        config["pagination_type"] = AliasOf(RawConfig["pagination_type"])

\* the keys of the input whose value the result keeps
KeptKeys(except) ==
    \A k \in DOMAIN RawConfig \ except :
        k \in DOMAIN config /\ config[k] = RawConfig[k]

\* C25 (as stated): normalize_company_config maps one_page, button and scroll
\* to none, button_click and infinite_scroll, leaves every other
\* pagination_type as it is, and never overwrites a key the input sets
C25_AliasesMappedExplicitKeysKept ==
    pc = "n_done" => AliasesMapped /\ KeptKeys({"pagination_type"})

\* C25 (amended): the same, except that one_page also sets max_pages to 1,
\* whatever max_pages the input gives
C25_AliasesMappedKeysKeptButMaxPages ==
    pc = "n_done" =>
        /\ AliasesMapped
        /\ IF Get(RawConfig, "pagination_type", "") = "one_page"
           THEN /\ config["max_pages"] = 1
                /\ KeptKeys({"pagination_type", "max_pages"})
           ELSE KeptKeys({"pagination_type"})

C25_Witness ==
    /\ pc = "n_done"
    /\ DOMAIN RawConfig = {"job_card", "pagination_type", "max_pages"}
    /\ RawConfig["pagination_type"] = "scroll"
    /\ config["pagination_type"] = "infinite_scroll"
    /\ config["max_pages"] = 2
    /\ config["card_selector"] = RawConfig["job_card"]


\* C26: every normalized configuration has a non-empty card_selector, and a
\* non-empty metadata_selector when use_metadata_parsing is true
C26_NormalizedConfigIsUsable ==
    pc = "n_done" =>
        /\ config["card_selector"] # ""
        /\ config["use_metadata_parsing"] => config["metadata_selector"] # ""


\* the counters of a statistics record
Counters == DOMAIN ZeroStats \ {"browser_closed_early"}

\* no counter of after is below its value in before, and the flag is not
\* taken back
NotBelow(before, after) ==
    /\ \A c \in Counters : after[c] >= before[c]
    /\ before.browser_closed_early => after.browser_closed_early

\* a step in which scrape_single_company calls aggregate_stats
Aggregates == pc \in {"s_extracted", "s_scroll_extracted"}

\* C27: within a session no counter of the statistics decreases and
\* browser_closed_early is never taken back (the statistics of a page start
\* anew with each call of extract_job_data); aggregate_stats adds each
\* counter of the page to the session's, ORs the flag and changes neither
\* the page's statistics nor the jobs
C27_StatsMonotoneAndAdded ==
    [][/\ NotBelow(overall_stats, overall_stats')
       /\ pc # "x_entry" => NotBelow(stats, stats')
       /\ Aggregates =>
            /\ \A c \in Counters :
                  overall_stats'[c] = overall_stats[c] + page_stats[c]
            /\ overall_stats'.browser_closed_early =
                  (overall_stats.browser_closed_early
                   \/ page_stats.browser_closed_early)
            /\ UNCHANGED <<page_stats, all_jobs>>]_vars

C27_Witness ==
    /\ pc = "s_finish"
    /\ slog.passes >= 2
    /\ overall_stats.total_job_cards_found > page_stats.total_job_cards_found
    /\ page_stats.total_job_cards_found > 0
    /\ overall_stats.browser_closed_early


\* the card indices 10, 20, 30, ... up to n
TensUpTo(n) == [k \in 1..(n \div 10) |-> 10 * k]

\* positions inside extract_job_data
InExtraction == pc \in CardSteps \cup {"x_entry", "x_loop", "x_return"}

\* C28: the cookie banners are suppressed once after the navigation and
\* before any card is extracted; within each pass they are re-checked at the
\* card indices 10, 20, 30, ... and at no other; and a failure of either
\* does not stop the extraction: every card of the pass is still emitted
C28_CookieSuppressionSchedule ==
    /\ slog.cookies_applied <= 1
    /\ InExtraction => slog.cookies_applied = 1
    /\ pc \in CardSteps => xlog.cookie_checks = TensUpTo(i)
    /\ pc \in {"x_loop", "x_return"} =>
          \E k \in {i - 1, i} : k >= 0 /\ xlog.cookie_checks = TensUpTo(k)
    /\ ("closed" \notin faults /\ pc = "x_return") => Len(xlog.emitted) = job_cards
    /\ ("closed" \notin faults /\ pc = "s_done") => slog.passes >= 1

C28_Witness ==
    /\ pc = "x_return"
    /\ "closed" \notin faults
    /\ slog.cookies_failed
    /\ xlog.cookie_failed
    /\ xlog.pass = 2
    /\ xlog.cookie_checks = <<10, 20>>
    /\ Len(xlog.emitted) = MaxCookieCards

-----------------------------------------------------------------------------
(* parse_metadata; a text is a sequence of characters *)

LowerLetters == <<"a", "b", "c", "d", "e", "f", "g", "h", "i", "j", "k", "l", "m", "n", "o", "p", "q", "r", "s", "t", "u", "v", "w", "x", "y", "z">>

UpperLetters == <<"A", "B", "C", "D", "E", "F", "G", "H", "I", "J", "K", "L", "M", "N", "O", "P", "Q", "R", "S", "T", "U", "V", "W", "X", "Y", "Z">>

Letters == {LowerLetters[k] : k \in 1..26} \cup {UpperLetters[k] : k \in 1..26}

Digits == {DigitChars[d] : d \in 1..10}

\* \s
Whitespace == {" ", "\t", "\n", "\r"}

\* \w
WordChars == Letters \cup Digits \cup {"_"}

\* [:\s]
ColonSpace == Whitespace \cup {":"}

LowerChar(c) ==
    IF \E k \in 1..26 : UpperLetters[k] = c
    THEN LowerLetters[CHOOSE k \in 1..26 : UpperLetters[k] = c]
    ELSE c

\* the text as re.IGNORECASE compares it
LowerText(t) == [k \in 1..Len(t) |-> LowerChar(t[k])]

SetMin(S) == CHOOSE x \in S : \A y \in S : x <= y

SetMax(S) == CHOOSE x \in S : \A y \in S : x >= y

RECURSIVE LStrip(_, _)
LStrip(t, chars) ==
    IF t # <<>> /\ Head(t) \in chars THEN LStrip(Tail(t), chars) ELSE t

RECURSIVE RStrip(_, _)
RStrip(t, chars) ==
    IF t # <<>> /\ t[Len(t)] \in chars
    THEN RStrip(SubSeq(t, 1, Len(t) - 1), chars) ELSE t

\* str.strip(chars)
StripOf(t, chars) == RStrip(LStrip(t, chars), chars)

\* str.strip()
Strip(t) == StripOf(t, Whitespace)

\* the literal lit stands in t at position p
At(t, p, lit) ==
    p >= 1 /\ p + Len(lit) - 1 <= Len(t) /\ SubSeq(t, p, p + Len(lit) - 1) = lit

\* the end of the longest run of characters of the class that starts at p:
\* the first position from p on whose character is outside the class
RunEnd(t, p, class) ==
    LET stops == {q \in p..Len(t) : t[q] \notin class}
    IN  IF stops = {} THEN Len(t) + 1 ELSE SetMin(stops)

\* the end of what .* takes from p: the next newline, or the end of the text
LineEnd(t, p) ==
    LET stops == {q \in p..Len(t) : t[q] = "\n"}
    IN  IF stops = {} THEN Len(t) + 1 ELSE SetMin(stops)

NA == <<"N", "/", "A">>

NoMatch == [found |-> FALSE, group1 |-> <<>>, group2 |-> <<>>]

Match(g1, g2) == [found |-> TRUE, group1 |-> g1, group2 |-> g2]

\* re.match(r'Posted\s+([A-Za-z]{3,9} \d{1,2}, \d{4})(.*)', text)
special_match(text) ==
    LET month == RunEnd(text, 7, Whitespace)
        month_end == RunEnd(text, month, Letters)
        day_end == RunEnd(text, month_end + 1, Digits)
        year_end == day_end + 5
    IN  IF /\ At(text, 1, <<"P", "o", "s", "t", "e", "d">>)
           /\ month > 7
           /\ month_end - month \in 3..9
           /\ At(text, month_end, <<" ">>)
           /\ day_end - (month_end + 1) \in 1..2
           /\ At(text, day_end, <<",", " ">>)
           /\ year_end <= Len(text)
           /\ \A q \in (day_end + 2)..year_end : text[q] \in Digits
        THEN Match(SubSeq(text, month, year_end),
                   SubSeq(text, year_end + 1, LineEnd(text, year_end + 1) - 1))
        ELSE NoMatch

\* ([\w\-\s]+?years?) tried from position g
ExperienceGroup(text, lt, g) ==
    LET ends == {e \in (g + 1)..Len(text) :
                    /\ At(lt, e, <<"y", "e", "a", "r">>)
                    /\ \A k \in g..(e - 1) :
                          text[k] \in WordChars \cup {"-"} \cup Whitespace}
    IN  IF ends = {} THEN NoMatch
        ELSE LET e == SetMin(ends)
                 stop == IF At(lt, e + 4, <<"s">>) THEN e + 5 ELSE e + 4
             IN  Match(SubSeq(text, g, stop - 1), <<>>)

\* Experience[:\s]*([\w\-\s]+?years?) tried at position s, re.IGNORECASE
ExperienceAt(text, lt, s) ==
    IF ~At(lt, s, <<"e", "x", "p", "e", "r", "i", "e", "n", "c", "e">>) THEN NoMatch
    ELSE LET q == s + 10
             starts == {g \in q..RunEnd(text, q, ColonSpace) :
                           ExperienceGroup(text, lt, g).found}
         IN  IF starts = {} THEN NoMatch
             ELSE ExperienceGroup(text, lt, SetMax(starts))

\* re.search(r'Experience[:\s]*([\w\-\s]+?years?)', text, re.IGNORECASE)
exp_match(text) ==
    LET lt == LowerText(text)
        found == {s \in 1..Len(text) : ExperienceAt(text, lt, s).found}
    IN  IF found = {} THEN NoMatch ELSE ExperienceAt(text, lt, SetMin(found))

\* re.search(r'Required Skill[:\s]*(.+)', text, re.IGNORECASE)
skill_match(text) ==
    LET lt == LowerText(text)
        starts(s) == {g \in (s + 14)..RunEnd(text, s + 14, ColonSpace) :
                         g <= Len(text) /\ text[g] # "\n"}
        found == {s \in 1..Len(text) :
                     At(lt, s, <<"r", "e", "q", "u", "i", "r", "e", "d", " ", "s", "k", "i", "l", "l">>) /\ starts(s) # {}}
    IN  IF found = {} THEN NoMatch
        ELSE LET g == SetMax(starts(SetMin(found)))
             IN  Match(SubSeq(text, g, LineEnd(text, g) - 1), <<>>)

\* (?:\s+Full time|\s+Experience:|\s+Required Skill:|$) at position e
LocationStop(text, e) ==
    \/ e = Len(text) + 1
    \/ e = Len(text) /\ text[e] = "\n"
    \/ LET r == RunEnd(text, e, Whitespace)
       IN  /\ r > e
           /\ \E lit \in {<<"F", "u", "l", "l", " ", "t", "i", "m", "e">>,
                          <<"E", "x", "p", "e", "r", "i", "e", "n", "c", "e", ":">>,
                          <<"R", "e", "q", "u", "i", "r", "e", "d", " ", "S", "k", "i", "l", "l", ":">>} :
                 At(text, r, lit)

\* re.match(r'([^,\n]+?)(?:\s+Full time|\s+Experience:|\s+Required Skill:|$)', text)
loc_match(text) ==
    LET ends == {e \in 2..(Len(text) + 1) :
                    /\ LocationStop(text, e)
                    /\ \A k \in 1..(e - 1) : text[k] \notin {",", "\n"}}
    IN  IF ends = {} THEN NoMatch
        ELSE Match(SubSeq(text, 1, SetMin(ends) - 1), <<>>)

\* posted|date|\d+/\d+|\d+ days?|\d+ hours? at position p, ignoring case
DateWord(text, lt, p) ==
    \/ At(lt, p, <<"p", "o", "s", "t", "e", "d">>)
    \/ At(lt, p, <<"d", "a", "t", "e">>)
    \/ LET r == RunEnd(text, p, Digits)
       IN  /\ r > p
           /\ \/ At(text, r, <<"/">>) /\ r + 1 <= Len(text) /\ text[r + 1] \in Digits
              \/ At(lt, r, <<" ", "d", "a", "y">>)
              \/ At(lt, r, <<" ", "h", "o", "u", "r">>)

\* (?i)(?:location[s]?[:\s]*)(.*?)(?:\n|posted|date|\d+/\d+|\d+ days?|\d+ hours?|$)
location_pattern_1(text) ==
    LET lt == LowerText(text)
        found == {s \in 1..Len(text) : At(lt, s, <<"l", "o", "c", "a", "t", "i", "o", "n">>)}
    IN  IF found = {} THEN NoMatch
        ELSE LET s == SetMin(found)
                 q == IF At(lt, s + 8, <<"s">>) THEN s + 9 ELSE s + 8
                 r == RunEnd(text, q, ColonSpace)
                 ends == {e \in r..LineEnd(text, r) :
                             \/ e = Len(text) + 1
                             \/ text[e] = "\n"
                             \/ DateWord(text, lt, e)}
             IN  Match(SubSeq(text, r, SetMin(ends) - 1), <<>>)

\* (?:\s*\n|\s*posted|\s*date|\s*\d+/\d+|\s*\d+ days?|\s*\d+ hours?) at e
DateWordAfterSpace(text, lt, e) ==
    \E r \in e..RunEnd(text, e, Whitespace) :
        r <= Len(text) /\ (text[r] = "\n" \/ DateWord(text, lt, r))

\* (?i)(.*?)(?:\s*\n|\s*posted|\s*date|\s*\d+/\d+|\s*\d+ days?|\s*\d+ hours?)
location_pattern_2(text) ==
    LET lt == LowerText(text)
        ends == {e \in 1..Min(LineEnd(text, 1), Len(text)) :
                    DateWordAfterSpace(text, lt, e)}
    IN  IF ends = {} THEN NoMatch
        ELSE Match(SubSeq(text, 1, SetMin(ends) - 1), <<>>)

\* (?:\s*\n|$) at position p
LineStop(text, p) ==
    \/ p = Len(text) + 1
    \/ \E r \in p..RunEnd(text, p, Whitespace) : r <= Len(text) /\ text[r] = "\n"

\* the position after (?:\s*\([^)]*\)) at p, 0 when there is none
ParenthesesEnd(text, p) ==
    LET r == RunEnd(text, p, Whitespace)
        closes == {c \in (r + 1)..Len(text) : text[c] = ")"}
    IN  IF r <= Len(text) /\ text[r] = "(" /\ closes # {}
        THEN SetMin(closes) + 1 ELSE 0

\* (?i)^([^(\n]*?)(?:\s*\([^)]*\))?(?:\s*\n|$)
location_pattern_3(text) ==
    LET ends == {e \in 1..(Len(text) + 1) :
                    /\ \A k \in 1..(e - 1) : text[k] \notin {"(", "\n"}
                    /\ \/ LineStop(text, e)
                       \/ /\ ParenthesesEnd(text, e) > 0
                          /\ LineStop(text, ParenthesesEnd(text, e))}
    IN  IF ends = {} THEN NoMatch
        ELSE Match(SubSeq(text, 1, SetMin(ends) - 1), <<>>)

\* re.match(r'^\d+[/\-]\d+', potential_location)
LooksLikeDate(pl) ==
    LET r == RunEnd(pl, 1, Digits)
    IN  r > 1 /\ r + 1 <= Len(pl) /\ pl[r] \in {"/", "-"} /\ pl[r + 1] \in Digits

\* re.sub(r'\s*\(.*?\)\s*$', '', pl)
RemoveParentheses(pl) ==
    LET starts == {s \in 1..Len(pl) :
                      LET w == RunEnd(pl, s, Whitespace)
                      IN  /\ w <= Len(pl)
                          /\ pl[w] = "("
                          /\ \E c \in (w + 1)..(LineEnd(pl, w) - 1) :
                                /\ pl[c] = ")"
                                /\ RunEnd(pl, c + 1, Whitespace) = Len(pl) + 1}
    IN  IF starts = {} THEN pl ELSE SubSeq(pl, 1, SetMin(starts) - 1)

\* re.sub(r'\s*(hybrid|remote|on-?site)\s*$', '', pl, flags=re.IGNORECASE)
RemoveWorkMode(pl) ==
    LET lt == LowerText(pl)
        starts == {s \in 1..Len(pl) :
                      LET w == RunEnd(pl, s, Whitespace)
                      IN  \E mode \in {<<"h", "y", "b", "r", "i", "d">>, <<"r", "e", "m", "o", "t", "e">>,
                                       <<"o", "n", "s", "i", "t", "e">>, <<"o", "n", "-", "s", "i", "t", "e">>} :
                             /\ At(lt, w, mode)
                             /\ RunEnd(pl, w + Len(mode), Whitespace) = Len(pl) + 1}
    IN  IF starts = {} THEN pl ELSE SubSeq(pl, 1, SetMin(starts) - 1)

\* the location a pattern's match gives, <<>> when the loop goes on to the
\* next pattern
PotentialLocation(match) ==
    LET potential_location == Strip(match.group1)
    IN  IF ~match.found \/ potential_location = <<>> \/ LooksLikeDate(potential_location)
        THEN <<>>
        ELSE Strip(RemoveWorkMode(RemoveParentheses(potential_location)))

\* for pattern in location_patterns: the first pattern that gives a location
GenericLocation(text) ==
    LET first == PotentialLocation(location_pattern_1(text))
        second == PotentialLocation(location_pattern_2(text))
        third == PotentialLocation(location_pattern_3(text))
    IN  IF first # <<>> THEN first
        ELSE IF second # <<>> THEN second
        ELSE IF third # <<>> THEN third
        ELSE NA

\* the position after \d{1,2}/\d{1,2}/\d{2,4} at p, 0 when it does not match
SlashDateEnd(text, p) ==
    LET day_end == RunEnd(text, p, Digits)
        month_end == RunEnd(text, day_end + 1, Digits)
        year_end == RunEnd(text, month_end + 1, Digits)
    IN  IF /\ day_end - p \in 1..2
           /\ At(text, day_end, <<"/">>)
           /\ month_end - (day_end + 1) \in 1..2
           /\ At(text, month_end, <<"/">>)
           /\ year_end - (month_end + 1) >= 2
        THEN month_end + 1 + Min(year_end - (month_end + 1), 4)
        ELSE 0

\* the position after \d+ <unit>s? ago at p, 0 when it does not match
AgoEnd(text, lt, p, unit) ==
    LET r == RunEnd(text, p, Digits)
        u == r + Len(unit)
    IN  IF r > p /\ At(lt, r, unit) /\ At(lt, u, <<"s", " ", "a", "g", "o">>) THEN u + 5
        ELSE IF r > p /\ At(lt, r, unit) /\ At(lt, u, <<" ", "a", "g", "o">>) THEN u + 4
        ELSE 0

\* the text of the leftmost match among the candidates (start and end after)
Leftmost(text, spans) ==
    IF spans = {} THEN NoMatch
    ELSE LET span == CHOOSE x \in spans : \A y \in spans : x[1] <= y[1]
         IN  Match(SubSeq(text, span[1], span[2] - 1), <<>>)

\* (?i)(?:posted|date)[:\s]*(\d{1,2}/\d{1,2}/\d{2,4})
date_pattern_1(text) ==
    LET lt == LowerText(text)
        DateFrom(s, word) == RunEnd(text, s + Len(word), ColonSpace)
        groups == {<<s, DateFrom(s, word), SlashDateEnd(text, DateFrom(s, word))>> :
                      s \in 1..Len(text), word \in {<<"p", "o", "s", "t", "e", "d">>, <<"d", "a", "t", "e">>}}
        found == {g \in groups :
                     /\ \E word \in {<<"p", "o", "s", "t", "e", "d">>, <<"d", "a", "t", "e">>} :
                           At(lt, g[1], word) /\ g[2] = DateFrom(g[1], word)
                     /\ g[3] > 0}
    IN  IF found = {} THEN NoMatch
        ELSE LET g == CHOOSE x \in found : \A y \in found : x[1] <= y[1]
             IN  Match(SubSeq(text, g[2], g[3] - 1), <<>>)

\* (?i)(\d{1,2}/\d{1,2}/\d{2,4})
date_pattern_2(text) ==
    Leftmost(text, {span \in {<<p, SlashDateEnd(text, p)>> : p \in 1..Len(text)} :
                       span[2] > 0})

\* (?i)(\d+ days? ago)
date_pattern_3(text) ==
    LET lt == LowerText(text)
    IN  Leftmost(text, {span \in {<<p, AgoEnd(text, lt, p, <<" ", "d", "a", "y">>)>> : p \in 1..Len(text)} :
                           span[2] > 0})

\* (?i)(\d+ hours? ago)
date_pattern_4(text) ==
    LET lt == LowerText(text)
    IN  Leftmost(text, {span \in {<<p, AgoEnd(text, lt, p, <<" ", "h", "o", "u", "r">>)>> : p \in 1..Len(text)} :
                           span[2] > 0})

\* (?i)(yesterday|today)
date_pattern_5(text) ==
    LET lt == LowerText(text)
    IN  Leftmost(text, {<<p, p + 9>> : p \in {q \in 1..Len(text) : At(lt, q, <<"y", "e", "s", "t", "e", "r", "d", "a", "y">>)}}
                       \cup
                       {<<p, p + 5>> : p \in {q \in 1..Len(text) : At(lt, q, <<"t", "o", "d", "a", "y">>)}})

\* (?i)(?:posting dates?)(\d{1,2}/\d{1,2}/\d{2,4})
date_pattern_6(text) ==
    LET lt == LowerText(text)
        DateFrom(s) == IF At(lt, s + 12, <<"s">>) THEN s + 13 ELSE s + 12
    IN  Leftmost(text, {span \in {<<DateFrom(s), SlashDateEnd(text, DateFrom(s))>> :
                                     s \in {q \in 1..Len(text) : At(lt, q, <<"p", "o", "s", "t", "i", "n", "g", " ", "d", "a", "t", "e">>)}} :
                           span[2] > 0})

\* for pattern in date_patterns: the first pattern that matches
GenericDate(text) ==
    LET matches == <<date_pattern_1(text), date_pattern_2(text),
                     date_pattern_3(text), date_pattern_4(text),
                     date_pattern_5(text), date_pattern_6(text)>>
        found == {k \in 1..6 : matches[k].found}
    IN  IF found = {} THEN NA ELSE Strip(matches[SetMin(found)].group1)

parse_metadata(metadata_text_in) ==
    IF metadata_text_in = <<>> THEN <<NA, NA>>
    ELSE LET text == Strip(metadata_text_in)
             special == special_match(text)
             exp == exp_match(text)
             skill == skill_match(text)
             loc == loc_match(text)
             location_val == IF loc.found THEN Strip(loc.group1) ELSE NA
             experience_val == IF exp.found THEN Strip(exp.group1) ELSE NA
             skills_val == IF skill.found THEN Strip(skill.group1) ELSE NA
         IN  IF special.found
             THEN <<StripOf(special.group2, {" ", ","}), Strip(special.group1)>>
             ELSE IF experience_val # NA \/ skills_val # NA
             THEN <<location_val, NA, experience_val, skills_val>>
             ELSE <<GenericLocation(text), GenericDate(text)>>

\* the pieces the texts given to parse_metadata are put together from
MetadataHeads ==
    {<<>>, <<"P", "o", "s", "t", "e", "d", " ", "J", "u", "l", " ", "2", "2", ",", " ", "2", "0", "2", "5">>,
     <<"P", "o", "s", "t", "e", "d", " ", " ", "S", "e", "p", "t", "e", "m", "b", "e", "r", " ", "5", ",", " ", "2", "0", "2", "4">>,
     <<"p", "o", "s", "t", "e", "d", " ", "J", "u", "l", " ", "2", "2", ",", " ", "2", "0", "2", "5">>}

MetadataPlaces ==
    {<<>>, <<"C", "h", "e", "n", "n", "a", "i", ",", " ", "I", "n", "d", "i", "a">>, <<"B", "e", "n", "g", "a", "l", "u", "r", "u">>, <<" ", "P", "u", "n", "e", ",", " ">>, <<"\n", "M", "u", "m", "b", "a", "i">>}

MetadataTails ==
    {<<>>, <<" ", "F", "u", "l", "l", " ", "t", "i", "m", "e">>,
     <<" ", "F", "u", "l", "l", " ", "t", "i", "m", "e", " ", "E", "x", "p", "e", "r", "i", "e", "n", "c", "e", ":", " ", "1", "0", "-", "1", "2", " ", "y", "e", "a", "r", "s", " ", "R", "e", "q", "u", "i", "r", "e", "d", " ", "S", "k", "i", "l", "l", ":", " ", "S", "A", "P", " ", "A", "B", "A", "P">>,
     <<" ", "E", "x", "p", "e", "r", "i", "e", "n", "c", "e", ":", " ", "3", " ", "y", "e", "a", "r", "s">>,
     <<" ", "R", "e", "q", "u", "i", "r", "e", "d", " ", "S", "k", "i", "l", "l", ":", " ", "S", "A", "P">>,
     <<" ", "e", "x", "p", "e", "r", "i", "e", "n", "c", "e", ":", " ", "2", " ", "y", "e", "a", "r">>,
     <<" ", "3", " ", "d", "a", "y", "s", " ", "a", "g", "o">>,
     <<" ", "(", "H", "y", "b", "r", "i", "d", ")", "\n", "1", "2", "/", "0", "5", "/", "2", "0", "2", "4">>}

MetadataTexts ==
    {head \o place \o tail :
        head \in MetadataHeads, place \in MetadataPlaces, tail \in MetadataTails}

\* parse_metadata(metadata_text), called on its own
ParseMetadata ==
    /\ pc = "pm_call"
    /\ parsed' = parse_metadata(metadata_text)
    /\ pc' = "pm_done"
    /\ UNCHANGED <<progVars, mainVars, detailVars, sessionVars, scrollVars,
                   handlerLogs, extractVars, config, faults, page, ret, metadata_text>>

InitMetadata ==
    /\ metadata_text \in MetadataTexts
    /\ parsed = <<>>
    /\ config = BaseConfig
    /\ faults = {}
    /\ page = [url |-> U_plain, cards |-> 0, alive |-> TRUE]
    /\ growK = 0
    /\ pc = "pm_call"
    /\ ret = "none"
    /\ all_jobs = <<>>
    /\ IdleExtract
    /\ IdleDetails
    /\ IdleSession
    /\ IdleScroll
    /\ site = NoSite
    /\ IdleProgressive
    /\ IdleMain

SpecMetadata == InitMetadata /\ [][ParseMetadata]_vars

\* what follows the date of a text that special_match matches, to the end of
\* the text
AfterPostedDate(text) ==
    LET date == RunEnd(text, 7, Whitespace)
    IN  SubSeq(text, date + Len(special_match(text).group1), Len(text))

\* C29: once parse_metadata has returned for a text that begins with
\* "Posted <Month> <Day>, <Year>", the result is the pair of the remainder of
\* the text after the date, trimmed of surrounding commas and spaces, and the
\* date, whatever else the text contains.
C29_PostedDateThenRemainder ==
    LET text == Strip(metadata_text)
    IN  (pc = "pm_done" /\ special_match(text).found)
            => parsed = <<StripOf(AfterPostedDate(text), {" ", ","}),
                          special_match(text).group1>>

\* the positions of the text where one of the literals stands
Occurrences(text, literals) ==
    {p \in 1..Len(text) : \E lit \in literals : At(text, p, lit)}

ExperienceMarker == <<"E", "x", "p", "e", "r", "i", "e", "n", "c", "e", ":">>

SkillMarker == <<"R", "e", "q", "u", "i", "r", "e", "d", " ", "S", "k", "i", "l", "l", ":">>

FullTime == <<"F", "u", "l", "l", " ", "t", "i", "m", "e">>

\* C30: once parse_metadata has returned for a text that the Posted-date rule
\* does not match and that contains an "Experience:" or "Required Skill:"
\* marker, the result is a 4-tuple whose second field is "N/A" and whose
\* location is the text before the first "Full time", "Experience:" or
\* "Required Skill:".
C30_MarkerTextGivesLocationBeforeMarker ==
    LET text == Strip(metadata_text)
        first == SetMin(Occurrences(text, {FullTime, ExperienceMarker, SkillMarker}))
    IN  (/\ pc = "pm_done"
         /\ ~special_match(text).found
         /\ Occurrences(text, {ExperienceMarker, SkillMarker}) # {})
            => /\ Len(parsed) = 4
               /\ parsed[2] = NA
               /\ parsed[1] = Strip(SubSeq(text, 1, first - 1))

\* C31: in progressive processing no card is given a record twice: the
\* records collected so far come from pairwise different card indices, also
\* after cards of a batch were skipped and after load-more clicks.
C31_NoCardEmittedTwice ==
    \A a, b \in 1..Len(self_job_data) :
        a # b => self_job_data[a].card # self_job_data[b].card

\* C32: with use_metadata_parsing set and the card's metadata element found,
\* the location and the posted date of the card's record, once its fields are
\* read, are the values parse_metadata gave; the location and posted-date
\* selectors have not replaced them.
C32_ParsedMetadataKept ==
    (FieldsDone /\ xlog.metadata = "ok")
        => job_data.location = "parsed" /\ job_data.posted_date = "parsed"

\* the tokens of a class attribute
ClassList(attr) ==
    IF attr.present
    THEN LET tokens == SplitOn(attr.value, " ")
         IN  {tokens[k] : k \in 1..Len(tokens)}
    ELSE {}

\* C33: handle_button_pagination leaves the located button unclicked exactly
\* when the button has a disabled attribute or its class list has the token
\* disabled; every other located button is clicked.
C33_DisabledByAttributeOrClassToken ==
    (blog.called /\ blog.found) =>
        (blog.click_attempted <=>
            ~(\/ blog.button.disabled.present
              \/ <<"d", "i", "s", "a", "b", "l", "e", "d">> \in ClassList(blog.button.class)))

\* C34: a wait for the cards that fails after a click that went through is
\* not a failure: handle_button_pagination returns True, the session's errors
\* stay as they were, and the session goes from the advance to the loop test,
\* the page probe and the next call of extract_job_data.
C34_FailedWaitAfterClickIsNoFailure ==
    [][/\ (pc = "b_entry" /\ blog'.wait = "error")
             => pagination_success' = "True" /\ errors' = errors
       /\ (blog.wait = "error" /\ pc \in {"s_advanced", "s_loop", "s_live"})
             => /\ errors' = errors
                /\ pc' = CASE pc = "s_advanced" -> "s_loop"
                           [] pc = "s_loop" -> "s_live"
                           [] pc = "s_live" -> "x_entry"]_vars

C34_Witness ==
    /\ blog.wait = "error"
    /\ blog.result = "True"
    /\ pc = "x_return"
    /\ xlog.pass = 2
    /\ slog.passes = 2
    /\ slog.advances = 1
    /\ errors = <<>>

\* the positions of what scrape_jobs returned whose record has a link and
\* whose link the store reported as existing
ReportedExisting ==
    {k \in plog.reported : k <= Len(sj_result) /\ sj_result[k].apply_link # "N/A"}

\* the records at the other positions, in the order they were scraped
Unreported ==
    LET keep == (1..Len(sj_result)) \ ReportedExisting
        nth(j) == CHOOSE k \in keep : Cardinality({x \in keep : x < k}) = j - 1
    IN  [j \in 1..Cardinality(keep) |-> sj_result[nth(j)]]

\* C35: the jobs of a finished special-case session are the records that
\* scrape_jobs obtained, in the order they were scraped, without those whose
\* apply link the store reported as existing (and none at all when the
\* session failed): the check comes after the links were found and before
\* the records are returned.
C35_ReportedLinksAreNotReturned ==
    /\ pc \in {"sp_finish", "sp_done"} => cleaned_jobs = Unreported
    /\ pc = "sp_done" =>
          \/ special_result.jobs = Unreported
          \/ special_result.status = "failed" /\ special_result.jobs = <<>>

C35_Witness ==
    /\ pc = "sp_done"
    /\ special_result.status = "completed"
    /\ Len(sj_result) = 3
    /\ ReportedExisting = {2}
    /\ special_result.jobs = <<sj_result[1], sj_result[3]>>
    /\ sj_result[1] # sj_result[3]

-----------------------------------------------------------------------------
(* crawl_ex.py: UniversalJobScraper.extract_job_details *)

MaxSelectors == 2

expected_fields ==
    {"title", "description", "requirements", "location", "employment_type",
     "posted_date"}

\* self._get_default_job_details(error_msg)
get_default_job_details(error_msg) ==
    [title |-> "N/A", description |-> "N/A", requirements |-> "N/A",
     location |-> "N/A", employment_type |-> "N/A", posted_date |-> "N/A",
     full_job_details |-> error_msg]

\* a field of detail_selectors: its name and the number of fallback selectors
\* in its list, -1 for a value that is not a list
FieldEntry(name, n) == [field |-> name, selectors |-> n]

\* the outer handler, `except Exception as e`, entered from the call `from`
ToExcept(from) ==
    /\ pc' = "d_except"
    /\ dlog' = [dlog EXCEPT !.raised = from]

\* await page.wait_for_selector(detail_container_selector, timeout=10000)
DetailContainerWait ==
    /\ pc = "d_wait"
    /\ \E o \in (IF ~page.alive THEN {}
                 ELSE IF detail_container = "missing" THEN {Raise(TimeoutMsg)}
                 ELSE {OK})
                \cup {c \in BrowserCall : IsClosure(c)} :
          /\ page' = AfterCall(o)
          /\ IF o.kind = "raise"
             THEN /\ pc' = "d_except"
                  /\ dlog' = [dlog EXCEPT !.container_wait = ReadKind(o),
                                          !.raised = "container_wait"]
             ELSE /\ pc' = "d_content"
                  /\ dlog' = [dlog EXCEPT !.container_wait = "ok"]
    /\ UNCHANGED <<progVars, mainVars, metaVars, sessionVars, scrollVars,
                   handlerLogs, extractVars, config, faults, ret,
                   detail_selectors, detail_container, job_details, field_i>>

AfterContentWaitUnguarded(o) == IF o.kind = "raise" THEN "d_except" ELSE "d_locate"

\* the position after the try around page.wait_for_function(...): its bare
\* except prints a warning and goes on
AfterContentWait(o) == "d_locate"

\* await page.wait_for_function("...textContent?.length > 100", timeout=15000)
DetailContentWait ==
    /\ pc = "d_content"
    /\ \E o \in (IF ~page.alive THEN {}
                 ELSE IF detail_container = "long" THEN {OK}
                 ELSE {Raise(TimeoutMsg)})
                \cup {c \in BrowserCall : IsClosure(c)} :
          /\ page' = AfterCall(o)
          /\ pc' = AfterContentWait(o)
          /\ dlog' = [dlog EXCEPT
                        !.content_wait = ReadKind(o),
                        !.raised = IF AfterContentWait(o) = "d_except"
                                   THEN "content_wait" ELSE @]
    /\ UNCHANGED <<progVars, mainVars, metaVars, sessionVars, scrollVars,
                   handlerLogs, extractVars, config, faults, ret,
                   detail_selectors, detail_container, job_details, field_i>>

\* detail_container.count() and detail_container.text_content()
DetailLocate ==
    /\ pc = "d_locate"
    /\ \E count \in PlainCall, text \in PlainCall :
          IF count.kind = "raise"
          THEN /\ page' = AfterCall(count)
               /\ ToExcept("count")
               /\ UNCHANGED <<job_details, field_i>>
          ELSE IF detail_container = "vanishes"
          THEN /\ job_details' = get_default_job_details("Container not found")
               /\ pc' = "d_done"
               /\ UNCHANGED <<page, dlog, field_i>>
          ELSE IF text.kind = "raise"
          THEN /\ page' = AfterCall(text)
               /\ ToExcept("text_content")
               /\ UNCHANGED <<job_details, field_i>>
          ELSE IF detail_container = "empty"
          THEN /\ job_details' = get_default_job_details("No content found")
               /\ pc' = "d_done"
               /\ UNCHANGED <<page, dlog, field_i>>
          ELSE /\ job_details' = [full_job_details |-> "text"]
               /\ field_i' = 0
               /\ pc' = "d_field"
               /\ UNCHANGED <<page, dlog>>
    /\ UNCHANGED <<progVars, mainVars, metaVars, sessionVars, scrollVars,
                   handlerLogs, extractVars, config, faults, ret,
                   detail_selectors, detail_container>>

\* how one selector of a field's list can go: a text, an element without
\* text, no element, or an exception (swallowed by the bare except)
SelectorOutcomes ==
    IF ~page.alive THEN {"raise"}
    ELSE {"text"}
         \cup (IF "absent" \in faults THEN {"blank", "absent"} ELSE {})
         \cup (IF "error" \in faults \/ "closed" \in faults THEN {"raise"} ELSE {})

\* the value the selector loop leaves: the first text, else None
FirstText(outcomes) ==
    IF \E k \in 1..Len(outcomes) : outcomes[k] = "text" THEN "text" ELSE "None"

\* one pass of `for field, selectors in detail_selectors.items()`
DetailField ==
    /\ pc = "d_field"
    /\ field_i < Len(detail_selectors)
    /\ LET entry == detail_selectors[field_i + 1]
           n == IF entry.selectors < 0 THEN 0 ELSE entry.selectors
       IN  \E outcomes \in [1..n -> SelectorOutcomes], closes \in Closes :
              LET value == FirstText(outcomes)
              IN  /\ job_details' =
                        Put(job_details, entry.field,
                            IF value = "None" THEN "N/A" ELSE value)
                  /\ dlog' = [dlog EXCEPT
                        !.tried = @ \cup {entry.field},
                        !.read = IF value = "None" THEN @ ELSE @ \cup {entry.field}]
                  /\ page' = IF closes /\ (\E k \in 1..n : outcomes[k] = "raise")
                             THEN [page EXCEPT !.alive = FALSE] ELSE page
    /\ field_i' = field_i + 1
    /\ UNCHANGED <<progVars, mainVars, metaVars, sessionVars, scrollVars,
                   handlerLogs, extractVars, config, faults, pc, ret,
                   detail_selectors, detail_container>>

\* for field in expected_fields: if field not in job_details: ... = "N/A";
\* then `return job_details`
DetailEnsure ==
    /\ pc = "d_field"
    /\ field_i >= Len(detail_selectors)
    /\ job_details' =
          [f \in DOMAIN job_details \cup expected_fields |->
              IF f \in DOMAIN job_details THEN job_details[f] ELSE "N/A"]
    /\ pc' = "d_done"
    /\ UNCHANGED <<progVars, mainVars, metaVars, sessionVars, scrollVars,
                   handlerLogs, extractVars, config, faults, page, ret,
                   detail_selectors, detail_container, field_i, dlog>>

\* except Exception as e: job_details = self._get_default_job_details(...);
\* then `return job_details`
DetailExcept ==
    /\ pc = "d_except"
    /\ job_details' = get_default_job_details("Error")
    /\ dlog' = [dlog EXCEPT !.excepted = TRUE]
    /\ pc' = "d_done"
    /\ UNCHANGED <<progVars, mainVars, metaVars, sessionVars, scrollVars,
                   handlerLogs, extractVars, config, faults, page, ret,
                   detail_selectors, detail_container, field_i>>

DetailNext ==
    \/ DetailContainerWait
    \/ DetailContentWait
    \/ DetailLocate
    \/ DetailField
    \/ DetailEnsure
    \/ DetailExcept

\* the detail_selectors of the configurations tried
DetailSelectorChoices ==
    {<<>>,
     <<FieldEntry("title", 1), FieldEntry("description", MaxSelectors)>>,
     <<FieldEntry("description", 1), FieldEntry("requirements", -1),
       FieldEntry("salary", MaxSelectors)>>,
     <<FieldEntry("location", 0), FieldEntry("full_job_details", 1)>>}

InitDetails ==
    /\ detail_selectors \in DetailSelectorChoices
    /\ detail_container \in {"missing", "vanishes", "empty", "short", "long"}
    /\ job_details = <<>>
    /\ field_i = 0
    /\ dlog = NoDlog
    /\ config = BaseConfig
    /\ faults \in {{}, {"absent"}, {"error"}, {"closed"}}
    /\ page = [url |-> U_detail, cards |-> 0, alive |-> TRUE]
    /\ growK = 0
    /\ pc = "d_wait"
    /\ ret = "none"
    /\ all_jobs = <<>>
    /\ IdleExtract
    /\ IdleMetadata
    /\ IdleSession
    /\ IdleScroll
    /\ site = NoSite
    /\ IdleProgressive
    /\ IdleMain

SpecDetails == InitDetails /\ [][DetailNext]_vars

\* the fields named in detail_selectors
ConfiguredFields == {detail_selectors[k].field : k \in 1..Len(detail_selectors)}

\* C36: extract_job_details does not raise: no exception of the wait for the
\* content reaches the outer handler, and a call whose container has content
\* and none of whose other calls raised goes through every configured field.
\* What it returns holds the six expected fields and full_job_details, with
\* "N/A" for each field but full_job_details that no selector could read.
C36_DetailsAlwaysReturned ==
    /\ pc \in {"d_wait", "d_content", "d_locate", "d_field", "d_except", "d_done"}
    /\ dlog.raised # "content_wait"
    /\ pc = "d_done" =>
          /\ expected_fields \cup {"full_job_details"} \subseteq DOMAIN job_details
          /\ \A f \in DOMAIN job_details \ {"full_job_details"} :
                f \notin dlog.read => job_details[f] = "N/A"
          /\ (dlog.raised = "none" /\ detail_container \in {"short", "long"})
                => /\ dlog.tried = ConfiguredFields
                   /\ \A f \in dlog.read : job_details[f] = "text"

C36_Witness ==
    /\ pc = "d_done"
    /\ detail_container = "short"
    /\ dlog.content_wait = "error"
    /\ ~dlog.excepted
    /\ dlog.tried = {"description", "requirements", "salary"}
    /\ dlog.read = {"description"}
    /\ job_details.description = "text"
    /\ job_details.salary = "N/A"
    /\ job_details.title = "N/A"
    /\ job_details.full_job_details = "text"

(* extract_job_data: the statistics of a call *)

\* C37: when extract_job_data returns, successful_extractions +
\* skipped_duplicates + skipped_extraction_errors is at most
\* total_job_cards_found, and the call has appended exactly
\* successful_extractions records to the list it was given
C37_CountersWithinCardsFound ==
    pc \in {"x_loop", "x_return"} =>
        /\ stats.successful_extractions + stats.skipped_duplicates
             + stats.skipped_extraction_errors <= stats.total_job_cards_found
        /\ Len(jobs) - Len(existing_jobs) = stats.successful_extractions
        /\ stats.skipped_extraction_errors = Cardinality(xlog.excepted)
        /\ stats.successful_extractions + stats.skipped_duplicates
             + stats.skipped_extraction_errors <= i

\* a call over two cards that appended one to the list it was given and lost
\* the other to the except of the card's try
C37_Witness ==
    /\ pc = "x_return"
    /\ stats.total_job_cards_found = 2
    /\ stats.successful_extractions = 1
    /\ stats.skipped_duplicates = 0
    /\ stats.skipped_extraction_errors = 1
    /\ Len(existing_jobs) = 1
    /\ Len(jobs) = 2

(* scrape_single_company: max_jobs in the page loop *)

\* C38: for every pagination type other than infinite_scroll the records a
\* session has collected never outnumber max_jobs, and once they equal
\* max_jobs no further card is extracted and no further advance is attempted
C38_MaxJobsBoundsCollection ==
    [][config.pagination_type # "infinite_scroll" =>
          /\ Len(jobs') <= config.max_jobs
          /\ Len(all_jobs') <= config.max_jobs
          /\ Len(jobs) = config.max_jobs =>
                /\ jobs' = jobs
                /\ pc' \notin CardSteps
                /\ pc' \notin {"b_entry", "u_entry", "sc_entry", "s_advanced"}
                /\ slog'.advances = slog.advances]_vars

\* a button_click session that reached max_jobs on its second page with a
\* card of that page left over, after one advance
C38_Witness ==
    /\ pc = "s_done"
    /\ config.pagination_type = "button_click"
    /\ config.max_jobs = 2
    /\ Len(result.jobs) = 2
    /\ xlog.pass = 2
    /\ i < job_cards
    /\ slog.advances = 1
    /\ current_page < config.max_pages

(* scrape_single_company: pages_scraped *)

\* C39: the pages_scraped a session reports is the number of extraction
\* passes its page loop made, whichever way the loop was left
C39_PagesScrapedCountsPasses ==
    (pc = "s_done" /\ result.status # "failed"
       /\ config.pagination_type # "infinite_scroll")
        => result.pages_scraped = slog.passes

(* scrape_single_company: the infinite_scroll branch *)

====
